---- MODULE Spec2Model ----
(***************************************************************************)
(* Model of the Http2RPC endpoint (src/unnamed/part_001, lines 241-1491):  *)
(* the per-method bulkhead and the inbound request lifecycle, and the      *)
(* per-target circuit breaker with the outbound retry loop.                *)
(***************************************************************************)
EXTENDS Integers, Sequences, FiniteSets, Bags, TLC

\* ------------------------------------------------------------------------
\* Bounds of the model
\* ------------------------------------------------------------------------
NReq == 4
MaxConc == 2
MaxQueue == 2
MaxReg == 1

Methods == {"a", "b"}
\* request paths: the registered names and one name that is never registered
Paths == Methods \cup {"ghost"}
Outcomes == {"return", "throw", "encodeFail"}

NCalls == 3
MaxInFlight == 1
MaxRetriesBound == 1
MaxTime == 2
MaxSec == 2
MaxFailureThreshold == 2
MaxSuccessThreshold == 2
RecoveryTicks == 2
\* retry delays: initialDelay and maxDelay range over 1..MaxDelayBound, backoffFactor over
\* 1..MaxFactor; Math.random() takes the values 0/JitterSteps .. (JitterSteps-1)/JitterSteps
MaxDelayBound == 3
MaxFactor == 2
JitterSteps == 4

Urls == {"u1"}

VARIABLES methodsReg, bhObjs, bhMap, reqs, nArrived, nAdd,
          requestCount, errorCount, bulkheadRejections

VARIABLES cbConfig, retryOnConfig, maxRetriesConfig, circuitBreakers, calls, nCalls, now,
          retryCount, circuitBreakerTrips, streak, tripAt, probes, cbOp

\* resilience.timeout.enabled and metrics.timeoutCount
VARIABLES timeoutEnabled, timeoutCount

\* resilience.retry: initialDelay, maxDelay, backoffFactor, jitterEnabled
VARIABLES delayConfig

\* the resilience configuration, fixed at construction
cfgVars == <<cbConfig, retryOnConfig, maxRetriesConfig, timeoutEnabled, delayConfig>>

cbVars == <<cbConfig, retryOnConfig, maxRetriesConfig, circuitBreakers, calls, nCalls, now,
            retryCount, circuitBreakerTrips, streak, tripAt, probes, cbOp,
            timeoutEnabled, timeoutCount, delayConfig>>

bhVars == <<methodsReg, bhObjs, bhMap, reqs, nArrived, nAdd,
            requestCount, errorCount, bulkheadRejections>>

\* the JWT options of the constructor, the authFailures metric, the last request seen by
\* #handleRequest and the last call of #validateJWT with its result
VARIABLES jwtAuth, jwtPublicKey, jwtIssuer, jwtAudience, excludedPaths,
          authFailures, authOp, jwtOp

jwtVars == <<jwtAuth, jwtPublicKey, jwtIssuer, jwtAudience, excludedPaths>>

authVars == <<jwtAuth, jwtPublicKey, jwtIssuer, jwtAudience, excludedPaths,
              authFailures, authOp, jwtOp>>

\* one call of request() against a served method: its inputs and what it settled with
VARIABLES rpcOp
\* the constructor call: the options it was given and what it produced
VARIABLES ctorOp

vars == <<bhVars, cbVars, authVars, rpcOp, ctorOp>>

\* ------------------------------------------------------------------------
\* Bulkhead state objects
\* ------------------------------------------------------------------------
\* the limits are read only when enabled is true
BulkheadConfigs ==
  {cfg \in [enabled : BOOLEAN, maxConcurrentRequests : 1..MaxConc, maxQueueSize : 1..MaxQueue] :
     cfg.enabled \/ (cfg.maxConcurrentRequests = 1 /\ cfg.maxQueueSize = 1)}

NewMethodState(cfg) ==
  [config |-> cfg, activeRequests |-> 0, queuedRequests |-> <<>>, rejectedRequests |-> 0]

\* the promise's own resolve function of request r, and the wrapper pushed on the queue
RawResolve(r) == <<"resolve", r>>
WrappedResolve(r) == <<"wrapper", r>>

QueueItem(r) == [req |-> r, resolve |-> WrappedResolve(r)]

\* Array.prototype.findIndex on identity of the resolve function; 0 stands for -1
FindIndex(q, fn) ==
  IF \E i \in 1..Len(q) : q[i].resolve = fn
  THEN CHOOSE i \in 1..Len(q) : q[i].resolve = fn /\ \A j \in 1..(i-1) : q[j].resolve # fn
  ELSE 0

\* Array.prototype.splice(index, 1)
Splice(q, i) == [j \in 1..(Len(q)-1) |-> IF j < i THEN q[j] ELSE q[j+1]]

CanExecuteImmediately_AtLimit(st) == st.activeRequests <= st.config.maxConcurrentRequests

CanExecuteImmediately(st) == st.activeRequests < st.config.maxConcurrentRequests

CanQueue_AtLimit(st) == Len(st.queuedRequests) <= st.config.maxQueueSize

CanQueue(st) == Len(st.queuedRequests) < st.config.maxQueueSize

DequeueIndex_Last(q) == Len(q)

\* index of the queue element a release takes: Array.prototype.shift
DequeueIndex(q) == 1

FinallyOutcomes_SuccessOnly == {"return"}

\* the outcomes of the handler/response step after which the finally block runs
FinallyOutcomes == {"return", "throw", "encodeFail"}

StateOf_Shared(m) == bhMap["a"]

\* the state object the registry holds for method m (0: none)
StateOf(m) == bhMap[m]

BulkheadActive(m) == StateOf(m) # 0 /\ bhObjs[StateOf(m)].config.enabled

AcquireOutcome_QueueFirst(m) ==
  IF ~BulkheadActive(m) THEN "bypass"
  ELSE IF CanQueue(bhObjs[StateOf(m)]) THEN "queue"
  ELSE IF CanExecuteImmediately(bhObjs[StateOf(m)]) THEN "immediate"
  ELSE "reject"

\* #acquireMethodBulkheadPermit: which of its four exits is taken
AcquireOutcome(m) ==
  IF ~BulkheadActive(m) THEN "bypass"
  ELSE IF CanExecuteImmediately(bhObjs[StateOf(m)]) THEN "immediate"
  ELSE IF CanQueue(bhObjs[StateOf(m)]) THEN "queue"
  ELSE "reject"

\* ------------------------------------------------------------------------
\* Requests
\* ------------------------------------------------------------------------
NoResp == [status |-> 0, error |-> "none", reason |-> "none"]

IdleReq ==
  [pc |-> "idle", method |-> "none", params |-> "none", obj |-> 0, promise |-> "none",
   timer |-> "none",
   handlerCalls |-> 0, releases |-> 0, responses |-> 0, metricsUpdates |-> 0,
   headersSent |-> FALSE, resp |-> NoResp, user |-> "absent"]

Reqs == 1..NReq

\* #formatResponse + #sendResponse + #updateMetrics for an error envelope
ErrorResponse(rq, status, code, reason) ==
  [rq EXCEPT !.pc = "done", !.responses = @ + 1, !.metricsUpdates = @ + 1,
             !.headersSent = TRUE,
             !.resp = [status |-> status, error |-> code, reason |-> reason]]

MethodIndex == [m \in Methods |-> IF m = "a" THEN 1 ELSE 2]

NoState == [config |-> [enabled |-> FALSE, maxConcurrentRequests |-> 0, maxQueueSize |-> 0],
            activeRequests |-> 0, queuedRequests |-> <<>>, rejectedRequests |-> 0]

ObjIds == 1..(Cardinality(Methods) + MaxReg)

\* the bulkhead configuration of the second method
SideConfig == [enabled |-> TRUE, maxConcurrentRequests |-> 1, maxQueueSize |-> 1]

\* ------------------------------------------------------------------------
\* Circuit breaker (per service URL)
\* ------------------------------------------------------------------------
\* DEFAULTS.RESILIENCE.CIRCUIT_BREAKER
FAILURE_THRESHOLD == 5
RECOVERY_TIMEOUT == 10000
SUCCESS_THRESHOLD == 3
\* DEFAULTS.RESILIENCE.RETRY.MAX_RETRIES
MAX_RETRIES == 3

DefaultBreakerConfig ==
  [enabled |-> TRUE, failureThreshold |-> FAILURE_THRESHOLD,
   recoveryTimeout |-> RECOVERY_TIMEOUT, successThreshold |-> SUCCESS_THRESHOLD]

\* the enabled configurations, and one with the breaker disabled
BreakerConfigs ==
  {cfg \in [enabled : BOOLEAN, failureThreshold : 1..MaxFailureThreshold,
            recoveryTimeout : {RecoveryTicks}, successThreshold : 1..MaxSuccessThreshold] :
     cfg.enabled \/ (cfg.failureThreshold = 1 /\ cfg.successThreshold = 1)}

\* no entry in the circuitBreakers map
NoCircuit == [state |-> "ABSENT", failureCount |-> 0, successCount |-> 0,
              lastFailureTime |-> 0, nextAttemptTime |-> 0]

NewCircuit == [state |-> "CLOSED", failureCount |-> 0, successCount |-> 0,
               lastFailureTime |-> 0, nextAttemptTime |-> 0]

\* #getCircuitBreakerState: the entry, created on first use
GetCircuitBreakerState(cbs, u) == IF cbs[u] = NoCircuit THEN NewCircuit ELSE cbs[u]

RecoveryComplete_Above(circuit, cfg) == circuit.successCount > cfg.successThreshold

\* HALF_OPEN: enough successes to close
RecoveryComplete(circuit, cfg) == circuit.successCount >= cfg.successThreshold

TripsBreaker_Above(circuit, cfg) ==
  circuit.state = "CLOSED" /\ circuit.failureCount > cfg.failureThreshold

\* CLOSED: enough failures to open
TripsBreaker(circuit, cfg) ==
  circuit.state = "CLOSED" /\ circuit.failureCount >= cfg.failureThreshold

RecoveryElapsed_Strict(circuit, t) == t > circuit.nextAttemptTime

\* OPEN: the recovery time is over
RecoveryElapsed(circuit, t) == t >= circuit.nextAttemptTime

ReopenedCircuit_NoRearm(circuit, cfg, t) == [circuit EXCEPT !.state = "OPEN"]

\* the re-arming of nextAttemptTime when a HALF_OPEN probe fails
ReopenedCircuit(circuit, cfg, t) ==
  [circuit EXCEPT !.state = "OPEN", !.nextAttemptTime = t + cfg.recoveryTimeout]

UpdateCircuitBreakerOnSuccess_NoReset(circuit, cfg) ==
  IF circuit.state = "HALF_OPEN" THEN
     LET c1 == [circuit EXCEPT !.successCount = @ + 1]
     IN IF RecoveryComplete(c1, cfg)
        THEN [c1 EXCEPT !.state = "CLOSED", !.failureCount = 0, !.successCount = 0]
        ELSE c1
  ELSE circuit

UpdateCircuitBreakerOnSuccess(circuit, cfg) ==
  IF circuit.state = "HALF_OPEN" THEN
     LET c1 == [circuit EXCEPT !.successCount = @ + 1]
     IN IF RecoveryComplete(c1, cfg)
        THEN [c1 EXCEPT !.state = "CLOSED", !.failureCount = 0, !.successCount = 0]
        ELSE c1
  ELSE IF circuit.state = "CLOSED" THEN [circuit EXCEPT !.failureCount = 0]
  ELSE circuit

UpdateCircuitBreakerOnFailure_Uncounted(circuit, cfg, t) ==
  IF circuit.state = "HALF_OPEN" THEN ReopenedCircuit(circuit, cfg, t) ELSE circuit

UpdateCircuitBreakerOnFailure(circuit, cfg, t) ==
  LET c1 == [circuit EXCEPT !.failureCount = @ + 1, !.lastFailureTime = t, !.successCount = 0]
  IN IF TripsBreaker(c1, cfg)
     THEN [c1 EXCEPT !.state = "OPEN", !.nextAttemptTime = t + cfg.recoveryTimeout]
     ELSE IF c1.state = "HALF_OPEN" THEN ReopenedCircuit(c1, cfg, t)
     ELSE c1

\* whether the failure update counts a trip in metrics.circuitBreakerTrips
CountsTrip(circuit, cfg) ==
  TripsBreaker([circuit EXCEPT !.failureCount = @ + 1], cfg)

\* #checkCircuitBreaker: the verdict and the entry it leaves
CheckCircuitBreaker(cbs, u, cfg, t) ==
  IF ~cfg.enabled THEN [allowed |-> TRUE, circuit |-> cbs[u]]
  ELSE LET circuit == GetCircuitBreakerState(cbs, u)
       IN IF circuit.state = "OPEN"
          THEN IF RecoveryElapsed(circuit, t)
               THEN [allowed |-> TRUE,
                     circuit |-> [circuit EXCEPT !.state = "HALF_OPEN", !.successCount = 0]]
               ELSE [allowed |-> FALSE, circuit |-> circuit]
          ELSE [allowed |-> TRUE, circuit |-> circuit]

\* getMetrics: metrics.circuitBreakerState, one report for each entry of the map
CircuitBreakerStateMetric(cbs) ==
  [u \in {x \in Urls : cbs[x] # NoCircuit} |->
     [state |-> cbs[u].state, failureCount |-> cbs[u].failureCount,
      successCount |-> cbs[u].successCount, lastFailureTime |-> cbs[u].lastFailureTime]]

ResetCircuit_KeepCounters(circuit) ==
  IF circuit = NoCircuit THEN NoCircuit ELSE [circuit EXCEPT !.state = "CLOSED"]

\* resetCircuitBreaker
ResetCircuit(circuit) == IF circuit = NoCircuit THEN NoCircuit ELSE NewCircuit

\* ------------------------------------------------------------------------
\* Outbound errors and the retry decision
\* ------------------------------------------------------------------------
\* DEFAULTS.RESILIENCE.RETRY.RETRY_ON; a retryOn list is held as its numbers and its strings
RETRY_ON == [statuses |-> {500, 502, 503, 504}, codes |-> {}]

\* errors an attempt can end with: status 0 and code "none" stand for an absent field;
\* timeout: the message contains 'timeout'; timer: the time limit that ran out
EnvelopeError(code) == [status |-> 500, code |-> code, timeout |-> FALSE, timer |-> "none"]
TransportError(code) == [status |-> 0, code |-> code, timeout |-> FALSE, timer |-> "none"]
\* 'Request timeout after ...ms'
TimeoutError == [status |-> 0, code |-> "none", timeout |-> TRUE, timer |-> "request"]
NoError == [status |-> 0, code |-> "none", timeout |-> FALSE, timer |-> "none"]

AttemptErrors ==
  {EnvelopeError("UNAUTHORIZED"), TransportError("ECONNREFUSED"), TimeoutError}

RetriesExhausted_Above(attempt, maxRetries) == attempt > maxRetries

\* the loop's stop after the last permitted attempt: attempt === maxRetries
RetriesExhausted(attempt, maxRetries) == attempt = maxRetries

\* #shouldRetry
ShouldRetry(error, retryOn) ==
  IF retryOn.statuses = {} /\ retryOn.codes = {} THEN FALSE
  ELSE IF error.status # 0 /\ error.status \in retryOn.statuses THEN TRUE
  ELSE IF error.code # "none" /\ error.code \in retryOn.codes THEN TRUE
  ELSE IF "ETIMEDOUT" \in retryOn.codes /\ error.timeout THEN TRUE
  ELSE FALSE

\* DEFAULTS.RESILIENCE.RETRY
INITIAL_DELAY == 500
MAX_DELAY == 5000
BACKOFF_FACTOR == 2

DelayConfigs ==
  [initialDelay : 1..MaxDelayBound, maxDelay : 1..MaxDelayBound,
   backoffFactor : 1..MaxFactor, jitterEnabled : BOOLEAN]

\* delays are held in units of 1 / DelayScale milliseconds, which makes the jitter an integer
DelayScale == 4 * JitterSteps

RECURSIVE Pow(_, _)
\* Math.pow(base, exponent) for integers
Pow(base, exponent) == IF exponent = 0 THEN 1 ELSE base * Pow(base, exponent - 1)

CalculateRetryDelay_Uncapped(attempt, config, rnd) ==
  LET delay == config.initialDelay * Pow(config.backoffFactor, attempt)
      jitter == IF config.jitterEnabled THEN delay * (2 * rnd - JitterSteps) ELSE 0
      jittered == delay * DelayScale + jitter
  IN IF jittered >= 0 THEN jittered ELSE 0

\* #calculateRetryDelay: jitter = delay * 0.25 * (random - 0.5) * 2, which in units of
\* 1 / DelayScale is delay * (2 * rnd - JitterSteps), rnd standing for Math.random() * JitterSteps
CalculateRetryDelay(attempt, config, rnd) ==
  LET grown == config.initialDelay * Pow(config.backoffFactor, attempt)
      delay == IF grown <= config.maxDelay THEN grown ELSE config.maxDelay
      jitter == IF config.jitterEnabled THEN delay * (2 * rnd - JitterSteps) ELSE 0
      jittered == delay * DelayScale + jitter
  IN IF jittered >= 0 THEN jittered ELSE 0

\* calls is the bag of the request() calls in progress, each with where it stands in the
\* retry loop (awaiting an attempt or in the backoff sleep), the loop variable attempt and
\* the attempts it has started (io); a call that returned or threw has left the bag.
\* sessions counts the HTTP/2 sessions of the call's attempts that are not destroyed.
\* delay is the length of the backoff sleep the call is in (0 when it is in none).
\* A call that passed the gate and started its first attempt:
NewCall(u) ==
  [pc |-> "attempting", url |-> u, attempt |-> 0, io |-> 1, sessions |-> 1, delay |-> 0]

\* With resilience.timeout.enabled the timer of #createTimeoutPromise, armed when the
\* attempt starts, runs out before the request timer of #makeRequest, armed with the same
\* delay once the session is connected: the attempt's request timeout is the wrapper's.
WrapperTimedOut(error, enabled) == enabled /\ error.timer = "request"

\* the state and the counters of a breaker entry, as an operation found them
Found(circuit) ==
  [state |-> circuit.state, failureCount |-> circuit.failureCount,
   successCount |-> circuit.successCount, nextAttemptTime |-> circuit.nextAttemptTime]

\* the last operation, with what it returned or threw to its caller, the breaker entry
\* it found, and for a failed attempt the error it rejected with
NoOp == [kind |-> "none", url |-> "none", result |-> "none", pre |-> Found(NoCircuit),
         error |-> NoError]

\* the bulkhead side of an endpoint constructed without methods
BhIdle ==
  /\ methodsReg = {}
  /\ bhMap = [m \in Paths |-> 0]
  /\ bhObjs = [o \in ObjIds |-> NoState]
  /\ reqs = [r \in Reqs |-> IdleReq]
  /\ nArrived = 0
  /\ nAdd = 0
  /\ requestCount = 0
  /\ errorCount = 0
  /\ bulkheadRejections = 0

\* the outbound side of a freshly constructed endpoint
OutStartWith(cfg, retryOn, maxRetries, timeouts, delays) ==
  /\ timeoutEnabled = timeouts
  /\ delayConfig = delays
  /\ timeoutCount = 0
  /\ cbConfig = cfg
  /\ retryOnConfig = retryOn
  /\ maxRetriesConfig = maxRetries
  /\ circuitBreakers = [u \in Urls |-> NoCircuit]
  /\ calls = EmptyBag
  /\ nCalls = 0
  /\ now = 0
  /\ retryCount = 0
  /\ circuitBreakerTrips = 0
  /\ streak = [u \in Urls |-> 0]
  /\ tripAt = [u \in Urls |-> -1]
  /\ probes = [u \in Urls |-> 0]
  /\ cbOp = NoOp

\* the same with the default delays and jitterEnabled = false
OutStart(cfg, retryOn, maxRetries, timeouts) ==
  OutStartWith(cfg, retryOn, maxRetries, timeouts,
               [initialDelay |-> INITIAL_DELAY, maxDelay |-> MAX_DELAY,
                backoffFactor |-> BACKOFF_FACTOR, jitterEnabled |-> FALSE])

\* the same with resilience.timeout.enabled = false
CbStart(cfg, retryOn, maxRetries) == OutStart(cfg, retryOn, maxRetries, FALSE)

\* ------------------------------------------------------------------------
\* Values on the wire: JSON.stringify / JSON.parse, #formatResponse, the response
\* decoding of #makeRequest
\* ------------------------------------------------------------------------
\* JavaScript values: a number, a string, null, NaN, a Date, undefined, or an object with
\* at most the property m (holding one of those, "absent": no such property) and,
\* when user is TRUE, the property _user
AtomKinds == {"number", "string", "null", "NaN", "date", "undefined"}

Atom(k) == [kind |-> k, m |-> "absent", user |-> FALSE]
Object(m) == [kind |-> "object", m |-> m, user |-> FALSE]

Undefined == Atom("undefined")
\* a property that the object does not have
Absent == Atom("absent")

Objects == {Object(m) : m \in AtomKinds \cup {"absent"}}

\* JSON.stringify of a value other than undefined: NaN is written as null, a Date as
\* the string of its toJSON
JsonAtom(k) == IF k = "NaN" THEN "null" ELSE IF k = "date" THEN "string" ELSE k

\* JSON.parse(JSON.stringify(...)) of a property value: a property holding undefined is
\* left out
JsonRoundTrip(v) ==
  IF v.kind = "undefined" THEN Absent
  ELSE IF v.kind = "object"
       THEN [v EXCEPT !.m = IF @ \in {"undefined", "absent"} THEN "absent" ELSE JsonAtom(@)]
       ELSE [v EXCEPT !.kind = JsonAtom(@)]

\* reading a property: undefined when the object does not have it
ReadProperty(x) == IF x = Absent THEN Undefined ELSE x

\* the handlers served: echo returns its params, a constant handler returns its value
\* whatever the params, the last one throws new Error(message)
Handlers ==
  {[name |-> "echo", value |-> Undefined, message |-> "none"],
   [name |-> "throw", value |-> Undefined, message |-> "Test error"]}
  \cup {[name |-> "const", value |-> v, message |-> "none"] : v \in {Atom(k) : k \in AtomKinds} \cup Objects}


\* the params the handler receives: JSON.parse(body), then params._user
ServerParams(p, auth) == [JsonRoundTrip(p) EXCEPT !.user = (auth = "user")]

HandlerResult(h, params) == IF h.name = "echo" THEN params ELSE h.value

\* #formatResponse followed by JSON.stringify and the client's JSON.parse
SuccessEnvelope(result) ==
  [error |-> "none", message |-> "none", details |-> "none", data |-> JsonRoundTrip(result)]
\* details: the property spread from error.extra, "none" without it
ErrorEnvelope(code, message, details) ==
  [error |-> code, message |-> message, details |-> details, data |-> Absent]

\* the response the server writes for the call
ServerResponse(p, h, auth) ==
  IF auth = "nokey" THEN ErrorEnvelope("UNAUTHORIZED", "none", "none")
  ELSE IF h.name = "throw"
       THEN ErrorEnvelope("INTERNAL_ERROR", "Internal server error", h.message)
  ELSE SuccessEnvelope(HandlerResult(h, ServerParams(p, auth)))

ErrorMessage_Default(response) == "RPC Error"

\* response.message || 'RPC Error'
ErrorMessage(response) ==
  IF response.message = "none" THEN "RPC Error" ELSE response.message

\* #makeRequest 'end' handler: reject for an error envelope, else resolve(response.data)
DecodeResponse(response) ==
  IF response.error # "none"
  THEN [kind |-> "rejected", code |-> response.error, message |-> ErrorMessage(response),
        value |-> Undefined]
  ELSE [kind |-> "resolved", code |-> "none", message |-> "none",
        value |-> ReadProperty(response.data)]

NoRpcOp ==
  [called |-> FALSE, params |-> Object("absent"), handler |-> [name |-> "echo", value |-> Undefined, message |-> "none"],
   auth |-> "off", response |-> ErrorEnvelope("none", "none", "none"),
   outcome |-> [kind |-> "none", code |-> "none", message |-> "none", value |-> Undefined]]

\* ------------------------------------------------------------------------
\* new Http2RPC(options)
\* ------------------------------------------------------------------------
\* DEFAULTS.PORT
PORT == 3000

\* an option is the empty tuple when it is not given (undefined), else <<value>>
NotGiven == <<>>
Opt(v) == <<v>>

\* the values tried for each option; methods is given by the kind of value it is
ThresholdOptions == {NotGiven, Opt(0), Opt(1)}

ConstructorOptions ==
  [port : {NotGiven, Opt(0), Opt(1), Opt(65535), Opt(65536)},
   host : {NotGiven, Opt(""), Opt(" "), Opt("example.org")},
   methods : {"undefined", "object", "array", "null"},
   failureThreshold : ThresholdOptions,
   recoveryTimeout : {NotGiven, Opt(0), Opt(RecoveryTicks)},
   successThreshold : ThresholdOptions,
   maxRetries : {NotGiven, Opt(-1), Opt(0)}]

\* validators.isValidPort, for an integer
IsValidPort(value) == value > 0 /\ value <= 65535

\* validators.isNonEmptyString: value.trim().length > 0
IsNonEmptyString(value) == value # "" /\ value # " "

\* validators.isObject, by the kind of the value
IsObject(kind) == kind = "object"

\* #validateConstructorOptions: the message of the error it throws, or "none"
ValidateConstructorOptions(options) ==
  IF options.port # NotGiven /\ ~IsValidPort(options.port[1])
  THEN "Port must be a valid port number (1-65535)"
  ELSE IF options.host # NotGiven /\ ~IsNonEmptyString(options.host[1])
  THEN "Host must be a non-empty string"
  ELSE IF options.methods # "undefined" /\ ~IsObject(options.methods)
  THEN "Methods must be an object"
  ELSE "none"

\* { default, ...given }: a given value replaces the default
Merged(default, option) == IF option = NotGiven THEN default ELSE option[1]

\* resilience.circuitBreaker and resilience.retry.maxRetries as the constructor merges them
MergedBreakerConfig(options) ==
  [enabled |-> TRUE,
   failureThreshold |-> Merged(FAILURE_THRESHOLD, options.failureThreshold),
   recoveryTimeout |-> Merged(RECOVERY_TIMEOUT, options.recoveryTimeout),
   successThreshold |-> Merged(SUCCESS_THRESHOLD, options.successThreshold)]

MergedMaxRetries(options) == Merged(MAX_RETRIES, options.maxRetries)

NoCtorOp ==
  [called |-> FALSE,
   options |-> [port |-> NotGiven, host |-> NotGiven, methods |-> "undefined",
                failureThreshold |-> NotGiven, recoveryTimeout |-> NotGiven,
                successThreshold |-> NotGiven, maxRetries |-> NotGiven],
   threw |-> "none", port |-> 0, host |-> "none", started |-> FALSE]

\* ------------------------------------------------------------------------
\* JWT authentication: constructor options, #validateJWT, #checkAuth
\* ------------------------------------------------------------------------
JWT_ALGORITHM == "RS256"

\* a claim the payload does not carry
NoClaim == -1

Keys == {"key1", "key2"}
Algorithms == {"RS256", "HS256"}
Principals == {"none", "p1", "p2"}
ClaimValues == {NoClaim} \cup 0..MaxSec

\* a token as #validateJWT sees it: the number of non-empty parts among the first three of
\* token.split('.'), whether header and payload decode as JSON, header.alg, the key of the
\* signature, and the payload's exp, nbf, iss, aud ("none": absent)
Tokens ==
  [parts: {2, 3}, decodes: BOOLEAN, alg: Algorithms, signedBy: Keys,
   exp: ClaimValues, nbf: ClaimValues, iss: Principals, aud: Principals]

\* JavaScript truthiness of a numeric claim: undefined and 0 are falsy
Truthy(v) == v # NoClaim /\ v # 0

Invalid(reason) == [valid |-> FALSE, error |-> reason, bare |-> FALSE]
Valid == [valid |-> TRUE, error |-> "none", bare |-> FALSE]
\* the boolean true returned when validation is switched off: its .valid and .error
\* read as undefined
BareTrue == [valid |-> FALSE, error |-> "undefined", bare |-> TRUE]

ValidateJWT_SignatureBeforeAlgorithm(token, t, auth, key, issuer, audience) ==
  IF ~auth \/ key = "none" THEN BareTrue
  ELSE IF token.parts # 3 THEN Invalid("Invalid token format")
  ELSE IF ~token.decodes THEN Invalid("JSON.parse SyntaxError")
  ELSE IF token.signedBy # key THEN Invalid("Invalid signature")
  ELSE IF token.alg # JWT_ALGORITHM THEN Invalid("Invalid algorithm")
  ELSE IF Truthy(token.exp) /\ token.exp < t THEN Invalid("Token expired")
  ELSE IF Truthy(token.nbf) /\ token.nbf > t THEN Invalid("Token not yet valid")
  ELSE IF issuer # "none" /\ token.iss # issuer THEN Invalid("Invalid issuer")
  ELSE IF audience # "none" /\ token.aud # audience THEN Invalid("Invalid audience")
  ELSE Valid

\* #validateJWT(token) at the time t = Math.floor(Date.now() / 1000)
ValidateJWT(token, t, auth, key, issuer, audience) ==
  IF ~auth \/ key = "none" THEN BareTrue
  ELSE IF token.parts # 3 THEN Invalid("Invalid token format")
  ELSE IF ~token.decodes THEN Invalid("JSON.parse SyntaxError")
  ELSE IF token.alg # JWT_ALGORITHM THEN Invalid("Invalid algorithm")
  ELSE IF token.signedBy # key THEN Invalid("Invalid signature")
  ELSE IF Truthy(token.exp) /\ token.exp < t THEN Invalid("Token expired")
  ELSE IF Truthy(token.nbf) /\ token.nbf > t THEN Invalid("Token not yet valid")
  ELSE IF issuer # "none" /\ token.iss # issuer THEN Invalid("Invalid issuer")
  ELSE IF audience # "none" /\ token.aud # audience THEN Invalid("Invalid audience")
  ELSE Valid

\* this.excludedPaths of the constructor
NewExcludedPaths(options) == {"health-check"} \cup options

\* a token without a second part
NoToken ==
  [parts |-> 2, decodes |-> FALSE, alg |-> "HS256", signedBy |-> "key2",
   exp |-> NoClaim, nbf |-> NoClaim, iss |-> "none", aud |-> "none"]

\* Authorization headers: absent, another scheme, or "Bearer " followed by a token
NoHeader == [scheme |-> "none", token |-> NoToken]
Bearer(token) == [scheme |-> "Bearer", token |-> token]

ValidationAccepted_BareTrue(validation) == validation.valid \/ validation.bare

\* the test !validation.valid of #checkAuth, negated
ValidationAccepted(validation) == validation.valid

\* #checkAuth(req, pathname): its result and the authFailures metric it leaves
CheckAuth(pathname, header, t) ==
  IF ~jwtAuth \/ pathname \in excludedPaths
  THEN [authorized |-> TRUE, error |-> "none", user |-> FALSE, authFailures |-> authFailures]
  ELSE IF header.scheme # "Bearer"
  THEN [authorized |-> FALSE, error |-> "Missing or invalid Authorization header",
        user |-> FALSE, authFailures |-> authFailures]
  ELSE LET validation == ValidateJWT(header.token, t, jwtAuth, jwtPublicKey,
                                     jwtIssuer, jwtAudience)
       IN IF ~ValidationAccepted(validation)
          THEN [authorized |-> FALSE, error |-> validation.error, user |-> FALSE,
                authFailures |-> authFailures + 1]
          ELSE [authorized |-> TRUE, error |-> "none", user |-> TRUE,
                authFailures |-> authFailures]

NoAuthOp ==
  [httpMethod |-> "none", path |-> "none", header |-> NoHeader, body |-> "", now |-> 0,
   checked |-> FALSE, authorized |-> FALSE]

NoJwtOp == [called |-> FALSE, token |-> NoToken, now |-> 0, result |-> Invalid("none")]

\* an endpoint constructed with the given JWT options
AuthStart(auth, key, issuer, audience, excluded) ==
  /\ jwtAuth = auth
  /\ jwtPublicKey = key
  /\ jwtIssuer = issuer
  /\ jwtAudience = audience
  /\ excludedPaths = NewExcludedPaths(excluded)
  /\ authFailures = 0
  /\ authOp = NoAuthOp
  /\ jwtOp = NoJwtOp
  /\ rpcOp = NoRpcOp
  /\ ctorOp = NoCtorOp

\* the constructor's defaults: no authentication
AuthOff == AuthStart(FALSE, "none", "none", "none", {})

\* State after construction and addMethod("a", h, cfg), addMethod("b", h, SideConfig)
Init ==
  /\ methodsReg = Methods
  /\ bhMap = [m \in Paths |-> IF m \in Methods THEN MethodIndex[m] ELSE 0]
  /\ \E cfg \in BulkheadConfigs :
        bhObjs = [o \in ObjIds |->
                    IF o = MethodIndex["a"] THEN NewMethodState(cfg)
                    ELSE IF o = MethodIndex["b"] THEN NewMethodState(SideConfig)
                    ELSE NoState]
  /\ reqs = [r \in Reqs |-> IdleReq]
  /\ nArrived = 0
  /\ nAdd = 0
  /\ requestCount = 0
  /\ errorCount = 0
  /\ bulkheadRejections = 0
  /\ CbStart(DefaultBreakerConfig, RETRY_ON, MAX_RETRIES)
  /\ AuthOff

\* ------------------------------------------------------------------------
\* addMethod(name, handler, bulkheadConfig)
\* ------------------------------------------------------------------------
AddMethod(m, cfg) ==
  /\ nAdd < MaxReg
  /\ nAdd' = nAdd + 1
  /\ bhObjs' = [bhObjs EXCEPT ![Cardinality(Methods) + nAdd + 1] = NewMethodState(cfg)]
  /\ bhMap' = [bhMap EXCEPT ![m] = Cardinality(Methods) + nAdd + 1]
  /\ methodsReg' = methodsReg \cup {m}
  /\ UNCHANGED <<reqs, nArrived, requestCount, errorCount, bulkheadRejections>>
  /\ UNCHANGED <<cbVars, authVars, rpcOp, ctorOp>>

\* ------------------------------------------------------------------------
\* set methods(methodsObject): this._methods = {}, then addMethod for every entry with
\* the default bulkhead configuration; bulkheadState.methods is left as it is
\* ------------------------------------------------------------------------
\* position of name m among the entries of the object assigned
EntryIndex(names, m) == Cardinality({x \in names : MethodIndex[x] <= MethodIndex[m]})

SetMethods(names) ==
  /\ nAdd + Cardinality(names) <= MaxReg
  /\ nAdd' = nAdd + Cardinality(names)
  /\ bhObjs' = [o \in ObjIds |->
                  IF \E m \in names : o = Cardinality(Methods) + nAdd + EntryIndex(names, m)
                  THEN NewMethodState([enabled |-> TRUE, maxConcurrentRequests |-> MaxConc,
                                        maxQueueSize |-> MaxQueue])
                  ELSE bhObjs[o]]
  /\ bhMap' = [m \in Paths |->
                 IF m \in names THEN Cardinality(Methods) + nAdd + EntryIndex(names, m)
                 ELSE bhMap[m]]
  /\ methodsReg' = names
  /\ UNCHANGED <<reqs, nArrived, requestCount, errorCount, bulkheadRejections>>
  /\ UNCHANGED <<cbVars, authVars, rpcOp, ctorOp>>

\* getMetrics().methodBulkheads: one report for every entry of bulkheadState.methods
MethodBulkheads ==
  [m \in {x \in Paths : bhMap[x] # 0} |->
     [activeRequests |-> bhObjs[bhMap[m]].activeRequests,
      queuedRequests |-> Len(bhObjs[bhMap[m]].queuedRequests),
      rejectedRequests |-> bhObjs[bhMap[m]].rejectedRequests,
      config |-> bhObjs[bhMap[m]].config]]

\* getMethodBulkheadStatus(methodName)
GetMethodBulkheadStatus(m) ==
  IF bhMap[m] = 0
  THEN [error |-> "Method not found", methodName |-> m, activeRequests |-> 0,
        queuedRequests |-> 0, rejectedRequests |-> 0]
  ELSE [error |-> "none", methodName |-> m,
        activeRequests |-> bhObjs[bhMap[m]].activeRequests,
        queuedRequests |-> Len(bhObjs[bhMap[m]].queuedRequests),
        rejectedRequests |-> bhObjs[bhMap[m]].rejectedRequests]

\* ------------------------------------------------------------------------
\* #handleRequest, 'end' handler up to the await of the bulkhead permit
\* ------------------------------------------------------------------------

\* let params = {}; if (body) params = JSON.parse(body): the params, or "SyntaxError"
ParseBody(body) ==
  IF body = "" THEN "{}"
  ELSE IF body \in {"{}", "{\"m\":1}", "{\"_user\":1}"} THEN body
  ELSE "SyntaxError"

\* the _user entry of the parsed params: absent, or what the client wrote
BodyUser(params) == IF params = "{\"_user\":1}" THEN "client" ELSE "absent"

\* if (authResult.user) params._user = authResult.user: the _user entry the handler gets
InjectUser(params, authUser) == IF authUser THEN "token" ELSE BodyUser(params)

\* authUser: whether #checkAuth returned the claims of a validated token
EndHandler(m, body, authUser) ==
  /\ nArrived < NReq
  /\ nArrived' = nArrived + 1
  /\ LET r == nArrived + 1
         o == StateOf(m)
         rq == [reqs[r] EXCEPT !.method = m,
                               !.params = IF m \in methodsReg /\ ParseBody(body) # "SyntaxError"
                                          THEN ParseBody(body) ELSE @,
                               !.user = IF m \in methodsReg /\ ParseBody(body) # "SyntaxError"
                                        THEN InjectUser(ParseBody(body), authUser) ELSE @]
     IN
     IF m \notin methodsReg THEN
        /\ reqs' = [reqs EXCEPT ![r] = ErrorResponse(rq, 404, "METHOD_NOT_FOUND", "none")]
        /\ requestCount' = requestCount + 1
        /\ errorCount' = errorCount + 1
        /\ UNCHANGED <<bhObjs, bulkheadRejections>>
     ELSE IF ParseBody(body) = "SyntaxError" THEN
        /\ reqs' = [reqs EXCEPT ![r] = ErrorResponse(rq, 400, "INVALID_JSON", "none")]
        /\ requestCount' = requestCount + 1
        /\ errorCount' = errorCount + 1
        /\ UNCHANGED <<bhObjs, bulkheadRejections>>
     ELSE CASE AcquireOutcome(m) = "bypass" ->
             /\ reqs' = [reqs EXCEPT ![r] = [rq EXCEPT !.pc = "running", !.promise = "resolved",
                                                      !.handlerCalls = @ + 1]]
             /\ UNCHANGED <<bhObjs, bulkheadRejections, requestCount, errorCount>>
          [] AcquireOutcome(m) = "immediate" ->
             /\ bhObjs' = [bhObjs EXCEPT ![o].activeRequests = @ + 1]
             /\ reqs' = [reqs EXCEPT ![r] = [rq EXCEPT !.pc = "running", !.promise = "resolved",
                                                      !.handlerCalls = @ + 1]]
             /\ UNCHANGED <<bulkheadRejections, requestCount, errorCount>>
          [] AcquireOutcome(m) = "queue" ->
             /\ bhObjs' = [bhObjs EXCEPT ![o].queuedRequests = Append(@, QueueItem(r))]
             /\ reqs' = [reqs EXCEPT ![r] = [rq EXCEPT !.pc = "queued", !.promise = "pending",
                                                      !.timer = "armed", !.obj = o]]
             /\ UNCHANGED <<bulkheadRejections, requestCount, errorCount>>
          [] AcquireOutcome(m) = "reject" ->
             /\ bhObjs' = [bhObjs EXCEPT ![o].rejectedRequests = @ + 1]
             /\ bulkheadRejections' = bulkheadRejections + 1
             /\ reqs' = [reqs EXCEPT ![r] =
                            ErrorResponse([rq EXCEPT !.promise = "rejected"], 503,
                                          "METHOD_BULKHEAD_EXCEEDED", "bulkhead_capacity_exceeded")]
             /\ requestCount' = requestCount + 1
             /\ errorCount' = errorCount + 1
  /\ UNCHANGED <<methodsReg, bhMap, nAdd>>

\* a request that passed the steps before the body is read, with the body {}
Arrive(m) ==
  /\ EndHandler(m, "{}", FALSE)
  /\ UNCHANGED <<cbVars, authVars, rpcOp, ctorOp>>

\* ------------------------------------------------------------------------
\* queueTimeout timer callback of #acquireMethodBulkheadPermit, and the
\* rejection path of #handleRequest that follows it
\* ------------------------------------------------------------------------
\* timers of equal delay fire in creation order
EarlierTimerArmed(r) ==
  \E w \in Reqs : /\ reqs[w].timer = "armed"
                   /\ reqs[w].obj = reqs[r].obj
                   /\ w < r

QueueTimeout(r) ==
  /\ reqs[r].timer = "armed"
  /\ ~EarlierTimerArmed(r)
  /\ LET o == reqs[r].obj
         index == FindIndex(bhObjs[o].queuedRequests, RawResolve(r))
     IN bhObjs' = IF index # 0
                  THEN [bhObjs EXCEPT ![o].queuedRequests = Splice(@, index)]
                  ELSE bhObjs
  /\ reqs' = [reqs EXCEPT ![r] =
                 ErrorResponse([reqs[r] EXCEPT !.promise = "rejected", !.timer = "fired"], 503,
                               "METHOD_BULKHEAD_EXCEEDED", "bulkhead_capacity_exceeded")]
  /\ requestCount' = requestCount + 1
  /\ errorCount' = errorCount + 1
  /\ UNCHANGED <<methodsReg, bhMap, nArrived, nAdd, bulkheadRejections>>
  /\ UNCHANGED <<cbVars, authVars, rpcOp, ctorOp>>

\* ------------------------------------------------------------------------
\* #handleRequest from the handler's completion on: response, metrics,
\* finally { #releaseMethodBulkheadPermit }, catch { INTERNAL_ERROR }
\* ------------------------------------------------------------------------
\* #releaseMethodBulkheadPermit on a state object
ReleasedState(st) ==
  IF Len(st.queuedRequests) > 0
  THEN [st EXCEPT !.activeRequests = (@ - 1) + 1,
                  !.queuedRequests = Splice(@, DequeueIndex(st.queuedRequests))]
  ELSE [st EXCEPT !.activeRequests = @ - 1]

ResolvedWaiter_Always(w) ==
  [w EXCEPT !.timer = "cleared", !.promise = "resolved", !.pc = "running",
            !.handlerCalls = @ + 1]

\* next.resolve({ acquired: true }) on a waiter: clearTimeout, then resolve the promise,
\* which resumes the waiter's #handleRequest at the handler call if it was still pending
ResolvedWaiter(w) ==
  IF w.promise = "pending"
  THEN [w EXCEPT !.timer = "cleared", !.promise = "resolved", !.pc = "running",
                 !.handlerCalls = @ + 1]
  ELSE w

\* the response part of the handler's completion
Responded(rq, outcome) ==
  CASE outcome = "return" ->
         [rq EXCEPT !.pc = "done", !.responses = @ + 1, !.metricsUpdates = @ + 1,
                    !.headersSent = TRUE,
                    !.resp = [status |-> 200, error |-> "none", reason |-> "none"]]
    [] outcome = "throw" ->
         ErrorResponse(rq, 500, "INTERNAL_ERROR", "none")
    [] outcome = "encodeFail" ->
         [rq EXCEPT !.pc = "done", !.headersSent = TRUE,
                    !.resp = [status |-> 200, error |-> "none", reason |-> "unfinished"]]

Complete(r, outcome) ==
  /\ reqs[r].pc = "running"
  /\ LET m == reqs[r].method
         o == StateOf(m)
         releasing == outcome \in FinallyOutcomes
         doRelease == releasing /\ BulkheadActive(m)
         hasNext == doRelease /\ Len(bhObjs[o].queuedRequests) > 0
         next == IF hasNext
                 THEN bhObjs[o].queuedRequests[DequeueIndex(bhObjs[o].queuedRequests)].req
                 ELSE 0
         done == [Responded(reqs[r], outcome) EXCEPT
                    !.releases = IF releasing THEN @ + 1 ELSE @]
     IN
     /\ bhObjs' = IF doRelease THEN [bhObjs EXCEPT ![o] = ReleasedState(@)] ELSE bhObjs
     /\ reqs' = [x \in Reqs |-> IF x = r THEN done
                                ELSE IF x = next THEN ResolvedWaiter(reqs[x])
                                ELSE reqs[x]]
     /\ requestCount' = IF outcome = "encodeFail" THEN requestCount ELSE requestCount + 1
     /\ errorCount' = IF outcome = "throw" THEN errorCount + 1 ELSE errorCount
  /\ UNCHANGED <<methodsReg, bhMap, nArrived, nAdd, bulkheadRejections>>
  /\ UNCHANGED <<cbVars, authVars, rpcOp, ctorOp>>

Next ==
  \/ \E m \in Methods : Arrive(m)
  \/ \E r \in Reqs : QueueTimeout(r)
  \/ \E r \in Reqs, outcome \in Outcomes : Complete(r, outcome)

Spec == Init /\ [][Next]_vars

\* the same endpoint with addMethod calls interleaved, and requests for a name that
\* is not registered
NextReg ==
  \/ Next
  \/ \E m \in Paths \ Methods : Arrive(m)
  \/ \E m \in Methods, cfg \in BulkheadConfigs : AddMethod(m, cfg)

SpecReg == Init /\ [][NextReg]_vars

\* the registry changed by addMethod and by assignments to methods, with requests served
NextMethods ==
  \/ \E m \in Methods, cfg \in BulkheadConfigs : AddMethod(m, cfg)
  \/ \E names \in SUBSET Methods : SetMethods(names)
  \/ \E m \in Paths : Arrive(m)
  \/ \E r \in Reqs : QueueTimeout(r)
  \/ \E r \in Reqs : Complete(r, "return")

SpecMethods == Init /\ [][NextMethods]_vars

\* ------------------------------------------------------------------------
\* request(serviceUrl, methodName, params, options)
\* ------------------------------------------------------------------------
\* gate check and, when it passes, the start of the first attempt
RequestStart(u) ==
  /\ nCalls < NCalls
  /\ BagCardinality(calls) < MaxInFlight
  /\ nCalls' = nCalls + 1
  /\ LET check == CheckCircuitBreaker(circuitBreakers, u, cbConfig, now)
         entered == circuitBreakers[u].state = "OPEN" /\ check.circuit.state = "HALF_OPEN"
     IN
     /\ circuitBreakers' = [circuitBreakers EXCEPT ![u] = check.circuit]
     /\ calls' = IF check.allowed THEN calls (+) SetToBag({NewCall(u)}) ELSE calls
     /\ streak' = IF entered THEN [streak EXCEPT ![u] = 0] ELSE streak
     /\ tripAt' = IF entered THEN [tripAt EXCEPT ![u] = -1] ELSE tripAt
     /\ probes' = IF entered THEN [probes EXCEPT ![u] = 0] ELSE probes
     /\ cbOp' = [kind |-> "request", url |-> u,
                 result |-> IF check.allowed THEN "none" ELSE "CIRCUIT_OPEN",
                 pre |-> Found(circuitBreakers[u]), error |-> NoError]
  /\ UNCHANGED <<cfgVars, now, retryCount, circuitBreakerTrips, timeoutCount>>
  /\ UNCHANGED <<bhVars, authVars, rpcOp, ctorOp>>

\* an attempt resolves: success update of the breaker, return
AttemptSucceeds(c) ==
  /\ BagIn(c, calls)
  /\ c.pc = "attempting"
  /\ LET u == c.url
         circuit == GetCircuitBreakerState(circuitBreakers, u)
     IN
     /\ circuitBreakers' = [circuitBreakers EXCEPT ![u] =
                              UpdateCircuitBreakerOnSuccess(circuit, cbConfig)]
     /\ streak' = IF streak[u] < cbConfig.failureThreshold
                  THEN [streak EXCEPT ![u] = 0] ELSE streak
     /\ probes' = [probes EXCEPT ![u] =
                      IF circuit.state = "HALF_OPEN" /\ circuitBreakers'[u].state = "HALF_OPEN"
                      THEN @ + 1 ELSE 0]
     /\ cbOp' = [kind |-> "success", url |-> u, result |-> "ok",
                 pre |-> Found(circuitBreakers[u]), error |-> NoError]
  /\ calls' = calls (-) SetToBag({c})
  /\ UNCHANGED <<cfgVars, nCalls, now, retryCount, circuitBreakerTrips, tripAt, timeoutCount>>
  /\ UNCHANGED <<bhVars, authVars, rpcOp, ctorOp>>

\* an attempt rejects with error err: failure update of the breaker, then the retry decision
AttemptFailsWith(c, err, rnd) ==
  /\ BagIn(c, calls)
  /\ c.pc = "attempting"
  /\ LET u == c.url
         circuit == GetCircuitBreakerState(circuitBreakers, u)
         n == IF streak[u] = 0 /\ circuit.state # "CLOSED" THEN 0
              ELSE IF streak[u] < cbConfig.failureThreshold THEN streak[u] + 1
              ELSE streak[u]
         stop == RetriesExhausted(c.attempt, maxRetriesConfig) \/ ~ShouldRetry(err, retryOnConfig)
     IN
     /\ circuitBreakers' = [circuitBreakers EXCEPT ![u] =
                              UpdateCircuitBreakerOnFailure(circuit, cbConfig, now)]
     /\ circuitBreakerTrips' = IF CountsTrip(circuit, cbConfig)
                               THEN circuitBreakerTrips + 1 ELSE circuitBreakerTrips
     /\ streak' = [streak EXCEPT ![u] = n]
     /\ tripAt' = IF n = cbConfig.failureThreshold /\ streak[u] < n
                  THEN [tripAt EXCEPT ![u] = now] ELSE tripAt
     /\ probes' = [probes EXCEPT ![u] = 0]
     /\ cbOp' = [kind |-> "failure", url |-> u, result |-> IF stop THEN "error" ELSE "none",
                 pre |-> Found(circuitBreakers[u]), error |-> err]
     /\ timeoutCount' = IF WrapperTimedOut(err, timeoutEnabled)
                        THEN timeoutCount + 1 ELSE timeoutCount
     /\ calls' = IF stop THEN calls (-) SetToBag({c})
                 ELSE (calls (-) SetToBag({c}))
                      (+) SetToBag({[c EXCEPT !.pc = "sleeping", !.attempt = @ + 1,
                                              !.delay = CalculateRetryDelay(c.attempt,
                                                                            delayConfig, rnd),
                                              !.sessions = IF WrapperTimedOut(err, timeoutEnabled)
                                                           THEN @ ELSE @ - 1]})
  /\ UNCHANGED <<cfgVars, nCalls, now, retryCount>>
  /\ UNCHANGED <<bhVars, authVars, rpcOp, ctorOp>>

\* the same for every value Math.random() can return to #calculateRetryDelay, which
\* calls it only if jitterEnabled
AttemptFails(c, err) ==
  \E rnd \in (IF delayConfig.jitterEnabled THEN 0..(JitterSteps - 1) ELSE {0}) :
     AttemptFailsWith(c, err, rnd)

\* the backoff sleep ends: count the retry and start the next attempt
WakeRetry(c) ==
  /\ BagIn(c, calls)
  /\ c.pc = "sleeping"
  /\ calls' = (calls (-) SetToBag({c}))
              (+) SetToBag({[c EXCEPT !.pc = "attempting", !.io = @ + 1, !.delay = 0,
                                      !.sessions = @ + 1]})
  /\ retryCount' = retryCount + 1
  /\ cbOp' = [kind |-> "retry", url |-> c.url, result |-> "none", pre |-> Found(NoCircuit),
              error |-> NoError]
  /\ UNCHANGED <<cfgVars, circuitBreakers, nCalls, now, circuitBreakerTrips,
                 streak, tripAt, probes, timeoutCount>>
  /\ UNCHANGED <<bhVars, authVars, rpcOp, ctorOp>>

\* resetCircuitBreaker(serviceUrl)
ManualReset(u) ==
  /\ circuitBreakers' = [circuitBreakers EXCEPT ![u] = ResetCircuit(@)]
  /\ streak' = [streak EXCEPT ![u] = 0]
  /\ tripAt' = [tripAt EXCEPT ![u] = -1]
  /\ probes' = [probes EXCEPT ![u] = 0]
  /\ cbOp' = [kind |-> "reset", url |-> u, result |-> "none", pre |-> Found(NoCircuit),
              error |-> NoError]
  /\ UNCHANGED <<cfgVars, calls, nCalls, now, retryCount, circuitBreakerTrips, timeoutCount>>
  /\ UNCHANGED <<bhVars, authVars, rpcOp, ctorOp>>

\* the clock (Date.now()) advances
Tick ==
  /\ now < MaxTime
  /\ now' = now + 1
  /\ cbOp' = [kind |-> "tick", url |-> "none", result |-> "none", pre |-> Found(NoCircuit),
              error |-> NoError]
  /\ UNCHANGED <<cfgVars, circuitBreakers, calls, nCalls, retryCount,
                 circuitBreakerTrips, streak, tripAt, probes, timeoutCount>>
  /\ UNCHANGED <<bhVars, authVars, rpcOp, ctorOp>>

InitOut ==
  /\ BhIdle
  /\ AuthOff
  /\ \E cfg \in BreakerConfigs, ro \in {RETRY_ON}, mr \in 0..MaxRetriesBound :
        CbStart(cfg, ro, mr)

NextOut ==
  \/ \E u \in Urls : RequestStart(u)
  \/ \E c \in BagToSet(calls) : AttemptSucceeds(c)
  \/ \E c \in BagToSet(calls), err \in AttemptErrors : AttemptFails(c, err)
  \/ \E c \in BagToSet(calls) : WakeRetry(c)
  \/ \E u \in Urls : ManualReset(u)
  \/ Tick

SpecOut == InitOut /\ [][NextOut]_vars

\* ------------------------------------------------------------------------
\* request() with the time limits of an attempt: resilience.timeout.enabled either way,
\* timeouts retried or not, the circuit breaker switched off
\* ------------------------------------------------------------------------
\* with 'Connection timeout after ...ms' beside 'Request timeout after ...ms'
TimedAttemptErrors ==
  {TransportError("ECONNREFUSED"), [TimeoutError EXCEPT !.timer = "connection"], TimeoutError}

\* the session of an attempt that the wrapper's timer gave up on is destroyed later, by
\* the request timer of #makeRequest or when its response ends
SessionClosed(c) ==
  /\ BagIn(c, calls)
  /\ c.sessions > (IF c.pc = "attempting" THEN 1 ELSE 0)
  /\ calls' = (calls (-) SetToBag({c})) (+) SetToBag({[c EXCEPT !.sessions = @ - 1]})
  /\ cbOp' = [kind |-> "closed", url |-> c.url, result |-> "none", pre |-> Found(NoCircuit),
              error |-> NoError]
  /\ UNCHANGED <<cfgVars, circuitBreakers, nCalls, now, retryCount, circuitBreakerTrips,
                 streak, tripAt, probes, timeoutCount>>
  /\ UNCHANGED <<bhVars, authVars, rpcOp, ctorOp>>

InitTimeout ==
  /\ BhIdle
  /\ AuthOff
  /\ \E ro \in {RETRY_ON, [RETRY_ON EXCEPT !.codes = {"ETIMEDOUT"}]}, mr \in 0..MaxRetriesBound, timeouts \in BOOLEAN :
        OutStart([DefaultBreakerConfig EXCEPT !.enabled = FALSE], ro, mr, timeouts)

NextTimeout ==
  \/ \E u \in Urls : RequestStart(u)
  \/ \E c \in BagToSet(calls) : AttemptSucceeds(c)
  \/ \E c \in BagToSet(calls), err \in TimedAttemptErrors : AttemptFails(c, err)
  \/ \E c \in BagToSet(calls) : WakeRetry(c)
  \/ \E c \in BagToSet(calls) : SessionClosed(c)

SpecTimeout == InitTimeout /\ [][NextTimeout]_vars

\* ------------------------------------------------------------------------
\* The inbound side with its scheduling: a queueTimeout timer that is armed fires, and a
\* handler that was invoked completes
\* ------------------------------------------------------------------------
Fairness ==
  \A r \in Reqs :
     /\ WF_vars(QueueTimeout(r))
     /\ WF_vars(\E outcome \in Outcomes : Complete(r, outcome))

SpecLive == Init /\ [][Next]_vars /\ Fairness

\* ------------------------------------------------------------------------
\* new Http2RPC(options) for every combination of the options
\* ------------------------------------------------------------------------
InitCtor ==
  /\ BhIdle
  /\ CbStart(DefaultBreakerConfig, RETRY_ON, MAX_RETRIES)
  /\ jwtAuth = FALSE
  /\ jwtPublicKey = "none"
  /\ jwtIssuer = "none"
  /\ jwtAudience = "none"
  /\ excludedPaths = NewExcludedPaths({})
  /\ authFailures = 0
  /\ authOp = NoAuthOp
  /\ jwtOp = NoJwtOp
  /\ rpcOp = NoRpcOp
  /\ \E options \in ConstructorOptions : ctorOp = [NoCtorOp EXCEPT !.options = options]

\* the constructor: validation, then the fields of the endpoint; with methods given the
\* server is started
Construct ==
  /\ ~ctorOp.called
  /\ LET options == ctorOp.options
         message == ValidateConstructorOptions(options)
     IN IF message # "none"
        THEN /\ ctorOp' = [ctorOp EXCEPT !.called = TRUE, !.threw = message]
             /\ UNCHANGED <<cbConfig, maxRetriesConfig>>
        ELSE /\ ctorOp' = [ctorOp EXCEPT !.called = TRUE,
                                         !.port = Merged(PORT, options.port),
                                         !.host = Merged("localhost", options.host),
                                         !.started = (options.methods = "object")]
             /\ cbConfig' = MergedBreakerConfig(options)
             /\ maxRetriesConfig' = MergedMaxRetries(options)
  /\ UNCHANGED <<retryOnConfig, timeoutEnabled, delayConfig, circuitBreakers, calls, nCalls, now,
                 retryCount, circuitBreakerTrips, streak, tripAt, probes, cbOp, timeoutCount>>
  /\ UNCHANGED <<bhVars, authVars, rpcOp>>

NextCtor == Construct

SpecCtor == InitCtor /\ [][NextCtor]_vars

\* ------------------------------------------------------------------------
\* one request() call under every retry delay configuration, the circuit breaker
\* switched off
\* ------------------------------------------------------------------------
InitDelay ==
  /\ BhIdle
  /\ AuthOff
  /\ \E mr \in 0..(MaxRetriesBound + 1), delays \in DelayConfigs :
        OutStartWith([DefaultBreakerConfig EXCEPT !.enabled = FALSE], RETRY_ON, mr,
                     FALSE, delays)

NextDelay ==
  \/ \E u \in Urls : nCalls = 0 /\ RequestStart(u)
  \/ \E c \in BagToSet(calls) : AttemptSucceeds(c)
  \/ \E c \in BagToSet(calls), err \in AttemptErrors : AttemptFails(c, err)
  \/ \E c \in BagToSet(calls) : WakeRetry(c)

SpecDelay == InitDelay /\ [][NextDelay]_vars

\* ------------------------------------------------------------------------
\* #validateJWT applied to every token, at every time, under every JWT configuration
\* ------------------------------------------------------------------------
\* the token and the time of the call are chosen at the start
InitJwt ==
  /\ BhIdle
  /\ CbStart(DefaultBreakerConfig, RETRY_ON, MAX_RETRIES)
  /\ jwtAuth \in BOOLEAN
  /\ jwtPublicKey \in {"none", "key1"}
  /\ jwtIssuer \in {"none", "p1"}
  /\ jwtAudience \in {"none", "p1"}
  /\ excludedPaths = NewExcludedPaths({})
  /\ authFailures = 0
  /\ authOp = NoAuthOp
  /\ rpcOp = NoRpcOp
  /\ ctorOp = NoCtorOp
  /\ \E token \in Tokens, t \in 1..MaxSec :
        jwtOp = [NoJwtOp EXCEPT !.token = token, !.now = t]

ValidateToken ==
  /\ ~jwtOp.called
  /\ jwtOp' = [jwtOp EXCEPT !.called = TRUE,
                            !.result = ValidateJWT(jwtOp.token, jwtOp.now, jwtAuth,
                                                   jwtPublicKey, jwtIssuer, jwtAudience)]
  /\ UNCHANGED <<jwtVars, authFailures, authOp>>
  /\ UNCHANGED <<bhVars, cbVars, rpcOp, ctorOp>>

NextJwt == ValidateToken

SpecJwt == InitJwt /\ [][NextJwt]_vars

\* ------------------------------------------------------------------------
\* #handleRequest from its first line: OPTIONS, health-check, #checkAuth, then
\* the 'end' handler
\* ------------------------------------------------------------------------
\* a well-formed token signed with key1 that is valid until second 1
LapsingToken ==
  [parts |-> 3, decodes |-> TRUE, alg |-> "RS256", signedBy |-> "key1",
   exp |-> 1, nbf |-> NoClaim, iss |-> "p1", aud |-> "p1"]

Headers == {NoHeader, [NoHeader EXCEPT !.scheme = "Basic"], Bearer(LapsingToken)}
HttpMethods == {"POST", "OPTIONS"}
RequestPaths == {"health-check", "a"}

ServedBeforeAuth_Never(pathname) == FALSE

\* the health-check branch, taken before #checkAuth
ServedBeforeAuth(pathname) == pathname = "health-check"

InitAuth ==
  /\ methodsReg = Methods
  /\ bhMap = [m \in Paths |-> IF m \in Methods THEN MethodIndex[m] ELSE 0]
  /\ bhObjs = [o \in ObjIds |-> IF o \in {MethodIndex["a"], MethodIndex["b"]}
                                THEN NewMethodState(SideConfig) ELSE NoState]
  /\ reqs = [r \in Reqs |-> IdleReq]
  /\ nArrived = 0
  /\ nAdd = 0
  /\ requestCount = 0
  /\ errorCount = 0
  /\ bulkheadRejections = 0
  /\ CbStart(DefaultBreakerConfig, RETRY_ON, MAX_RETRIES)
  /\ \E auth \in BOOLEAN, key \in {"none", "key1"}, excluded \in {{}, {"a"}} :
        AuthStart(auth, key, "none", "none", excluded)

\* a response written without #updateMetrics: the OPTIONS answer and #handleHealthCheck
PlainResponse(rq, status) ==
  [rq EXCEPT !.pc = "done", !.responses = @ + 1, !.headersSent = TRUE,
             !.resp = [status |-> status, error |-> "none", reason |-> "none"]]

HandleRequestWith(httpMethod, pathname, header, t, body) ==
  /\ nArrived < NReq
  /\ LET r == nArrived + 1
         rq == [reqs[r] EXCEPT !.method = pathname]
         authResult == CheckAuth(pathname, header, t)
         early == httpMethod = "OPTIONS" \/ ServedBeforeAuth(pathname)
     IN
     /\ authOp' = [httpMethod |-> httpMethod, path |-> pathname, header |-> header,
                   body |-> body, now |-> t,
                   checked |-> ~early, authorized |-> ~early /\ authResult.authorized]
     /\ IF early THEN
           /\ reqs' = [reqs EXCEPT ![r] = PlainResponse(rq, 200)]
           /\ nArrived' = nArrived + 1
           /\ UNCHANGED <<methodsReg, bhMap, nAdd, bhObjs, bulkheadRejections,
                          requestCount, errorCount, authFailures>>
        ELSE IF ~authResult.authorized THEN
           /\ reqs' = [reqs EXCEPT ![r] = ErrorResponse(rq, 401, "UNAUTHORIZED", "none")]
           /\ nArrived' = nArrived + 1
           /\ requestCount' = requestCount + 1
           /\ errorCount' = errorCount + 1
           /\ authFailures' = authResult.authFailures
           /\ UNCHANGED <<methodsReg, bhMap, nAdd, bhObjs, bulkheadRejections>>
        ELSE
           /\ EndHandler(pathname, body, authResult.user)
           /\ authFailures' = authResult.authFailures
  /\ UNCHANGED <<jwtVars, jwtOp>>
  /\ UNCHANGED <<cbVars, rpcOp, ctorOp>>

\* a request with the body {}
HandleRequest(httpMethod, pathname, header, t) ==
  HandleRequestWith(httpMethod, pathname, header, t, "{}")

NextAuth ==
  \/ \E httpMethod \in HttpMethods, pathname \in RequestPaths, header \in Headers,
        t \in 1..MaxSec : HandleRequest(httpMethod, pathname, header, t)
  \/ \E r \in Reqs : QueueTimeout(r)
  \/ \E r \in Reqs : Complete(r, "return")

SpecAuth == InitAuth /\ [][NextAuth]_vars

\* ------------------------------------------------------------------------
\* POST requests whose body may hold a _user entry, under every JWT configuration
\* ------------------------------------------------------------------------

NextUser ==
  \/ \E pathname \in RequestPaths, header \in Headers, t \in 1..MaxSec, body \in {"{}", "{\"_user\":1}"} :
        HandleRequestWith("POST", pathname, header, t, body)
  \/ \E r \in Reqs : QueueTimeout(r)
  \/ \E r \in Reqs : Complete(r, "return")

SpecUser == InitAuth /\ [][NextUser]_vars

\* ------------------------------------------------------------------------
\* request() against a served method, through both encodings
\* ------------------------------------------------------------------------
\* the params, the handler and the caller's authentication are chosen at the start
InitRpc ==
  /\ BhIdle
  /\ CbStart(DefaultBreakerConfig, RETRY_ON, MAX_RETRIES)
  /\ jwtAuth = FALSE
  /\ jwtPublicKey = "none"
  /\ jwtIssuer = "none"
  /\ jwtAudience = "none"
  /\ excludedPaths = NewExcludedPaths({})
  /\ authFailures = 0
  /\ authOp = NoAuthOp
  /\ jwtOp = NoJwtOp
  /\ \E p \in Objects, h \in Handlers, auth \in {"off", "user", "nokey"} :
        rpcOp = [NoRpcOp EXCEPT !.params = p, !.handler = h, !.auth = auth]
  /\ ctorOp = NoCtorOp

RoundTrip ==
  /\ ~rpcOp.called
  /\ LET response == ServerResponse(rpcOp.params, rpcOp.handler, rpcOp.auth)
     IN rpcOp' = [rpcOp EXCEPT !.called = TRUE, !.response = response,
                               !.outcome = DecodeResponse(response)]
  /\ UNCHANGED <<bhVars, cbVars, authVars, ctorOp>>

NextRpc == RoundTrip

SpecRpc == InitRpc /\ [][NextRpc]_vars

\* ------------------------------------------------------------------------
\* POST requests with every kind of body, for a registered and an unregistered name,
\* on an endpoint without authentication
\* ------------------------------------------------------------------------
InitBody ==
  /\ methodsReg = Methods
  /\ bhMap = [m \in Paths |-> IF m \in Methods THEN MethodIndex[m] ELSE 0]
  /\ bhObjs = [o \in ObjIds |-> IF o \in {MethodIndex["a"], MethodIndex["b"]}
                                THEN NewMethodState(SideConfig) ELSE NoState]
  /\ reqs = [r \in Reqs |-> IdleReq]
  /\ nArrived = 0
  /\ nAdd = 0
  /\ requestCount = 0
  /\ errorCount = 0
  /\ bulkheadRejections = 0
  /\ CbStart(DefaultBreakerConfig, RETRY_ON, MAX_RETRIES)
  /\ AuthOff

\* #handleRequest for a POST that is authorized, up to the await of the bulkhead permit
Post(pathname, body) ==
  /\ EndHandler(pathname, body, FALSE)
  /\ authOp' = [NoAuthOp EXCEPT !.httpMethod = "POST", !.path = pathname, !.body = body,
                                !.checked = TRUE, !.authorized = TRUE]
  /\ UNCHANGED <<jwtVars, authFailures, jwtOp>>
  /\ UNCHANGED <<cbVars, rpcOp, ctorOp>>

NextBody ==
  \/ \E pathname \in {"a", "ghost"}, body \in {"", "{}", "{\"m\":1}", "{m"} :
       Post(pathname, body)
  \/ \E r \in Reqs : QueueTimeout(r)
  \/ \E r \in Reqs : Complete(r, "return")

SpecBody == InitBody /\ [][NextBody]_vars

\* ------------------------------------------------------------------------
\* Properties of the bulkhead and the inbound lifecycle
\* ------------------------------------------------------------------------
QueuedReqs(o) == {bhObjs[o].queuedRequests[i].req : i \in 1..Len(bhObjs[o].queuedRequests)}

Arrived(m) == {r \in 1..nArrived : reqs[r].method = m}
Running(m) == {r \in Arrived(m) : reqs[r].pc = "running"}

\* answered by the capacity exit of the bulkhead / by its queue timeout
CapacityRejected(r) ==
  reqs[r].pc = "done" /\ reqs[r].promise = "rejected" /\ reqs[r].timer = "none"
TimedOut(r) == reqs[r].timer = "fired"
HandlerFinished(r) == reqs[r].pc = "done" /\ reqs[r].handlerCalls > 0

IsBulkheadExceeded(r) ==
  reqs[r].resp.status = 503 /\ reqs[r].resp.error = "METHOD_BULKHEAD_EXCEEDED"

C2_ReleaseExactlyOnce ==
  \A r \in Reqs :
     /\ reqs[r].releases <= 1
     /\ (reqs[r].pc = "done" /\ reqs[r].promise = "resolved") => reqs[r].releases = 1
     /\ reqs[r].pc # "done" => reqs[r].releases = 0
     /\ reqs[r].promise = "rejected" => (reqs[r].releases = 0 /\ reqs[r].handlerCalls = 0)

\* the three handler outcomes, an admission from the queue and a rejection have all happened
C2_Witness ==
  /\ \E r \in Reqs : reqs[r].resp.status = 200 /\ reqs[r].responses = 1 /\ reqs[r].releases = 1
  /\ \E r \in Reqs : reqs[r].resp.status = 500 /\ reqs[r].releases = 1
  /\ \E r \in Reqs : reqs[r].resp.reason = "unfinished" /\ reqs[r].releases = 1
                     /\ reqs[r].timer = "cleared"
  /\ \E r \in Reqs : CapacityRejected(r) /\ reqs[r].releases = 0

\* C3: a waiter whose queueTimeout timer fired is no longer in the method's queue
\* (so the queue got shorter by one and no later release can dequeue it).
C3_TimedOutWaiterRemoved ==
  \A r \in Reqs : TimedOut(r) => r \notin QueuedReqs(reqs[r].obj)

\* C4: FIFO admission: a waiter is admitted only as the head of its queue, and no
\* waiter of the same method that was enqueued before it is still waiting then.
C4_FifoAdmission ==
  [][\A w \in Reqs :
        (reqs[w].pc = "queued" /\ reqs'[w].pc = "running") =>
           /\ Head(bhObjs[reqs[w].obj].queuedRequests).req = w
           /\ \A v \in Reqs : (v < w /\ reqs[v].obj = reqs[w].obj) => reqs[v].pc # "queued"]_vars

\* two waiters were in the queue together (the fourth request found the queue full),
\* the one enqueued first has been admitted and the other still waits
C4_Witness ==
  /\ bhObjs[StateOf("a")].config = [enabled |-> TRUE, maxConcurrentRequests |-> 1,
                                    maxQueueSize |-> 2]
  /\ \A r \in 1..4 : reqs[r].method = "a"
  /\ reqs[2].timer = "cleared" /\ reqs[2].pc = "running"
  /\ reqs[3].pc = "queued"
  /\ CapacityRejected(4)

\* C5: a request arriving when activeRequests = maxConcurrentRequests and the queue holds
\* maxQueueSize waiters is answered 503 METHOD_BULKHEAD_EXCEEDED in that step, the method's
\* rejectedRequests and bulkheadRejections each grow by one, its handler is not invoked,
\* and activeRequests and the queue are unchanged.
C5_CapacityRejection ==
  [][nArrived' = nArrived + 1 =>
       LET r == nArrived + 1
           m == reqs'[r].method
       IN (/\ m \in Methods
           /\ BulkheadActive(m)
           /\ bhObjs[StateOf(m)].activeRequests = bhObjs[StateOf(m)].config.maxConcurrentRequests
           /\ Len(bhObjs[StateOf(m)].queuedRequests) = bhObjs[StateOf(m)].config.maxQueueSize)
          => /\ reqs'[r].pc = "done"
             /\ reqs'[r].resp.status = 503
             /\ reqs'[r].resp.error = "METHOD_BULKHEAD_EXCEEDED"
             /\ reqs'[r].responses = 1
             /\ reqs'[r].handlerCalls = 0
             /\ bhObjs'[StateOf(m)].rejectedRequests = bhObjs[StateOf(m)].rejectedRequests + 1
             /\ bulkheadRejections' = bulkheadRejections + 1
             /\ bhObjs'[StateOf(m)].activeRequests = bhObjs[StateOf(m)].activeRequests
             /\ bhObjs'[StateOf(m)].queuedRequests = bhObjs[StateOf(m)].queuedRequests]_vars

\* a request has been rejected for capacity while the method stays full
C5_Witness ==
  \E r \in Arrived("a") :
     /\ CapacityRejected(r) /\ IsBulkheadExceeded(r)
     /\ bhObjs[StateOf("a")].rejectedRequests >= 1
     /\ bulkheadRejections >= 1
     /\ bhObjs[StateOf("a")].activeRequests = bhObjs[StateOf("a")].config.maxConcurrentRequests
     /\ Len(bhObjs[StateOf("a")].queuedRequests) = bhObjs[StateOf("a")].config.maxQueueSize

\* position of request r among the arrivals for method m
Rank(m, r) == Cardinality({x \in 1..r : reqs[x].method = m})

C7_OpenAfterThreshold ==
  [][nCalls' = nCalls + 1 =>
       \A u \in Urls :
          (/\ cbOp'.url = u
           /\ cbConfig.enabled
           /\ streak[u] >= cbConfig.failureThreshold
           /\ tripAt[u] >= 0
           /\ now < tripAt[u] + cbConfig.recoveryTimeout)
          => /\ cbOp'.result = "CIRCUIT_OPEN"
             /\ calls' = calls
             /\ retryCount' = retryCount]_vars

\* a request was refused after two consecutive failures, some time after the second one
C7_Witness ==
  \E u \in Urls :
     /\ cbOp.kind = "request" /\ cbOp.url = u /\ cbOp.result = "CIRCUIT_OPEN"
     /\ cbConfig.enabled /\ cbConfig.failureThreshold = 2
     /\ streak[u] >= cbConfig.failureThreshold
     /\ tripAt[u] >= 0 /\ tripAt[u] < now /\ now < tripAt[u] + cbConfig.recoveryTimeout

\* C8: in HALF_OPEN the successThreshold-th consecutive success closes the breaker with
\* failureCount = 0 and successCount = 0; after fewer successes it is still HALF_OPEN.
C8_HalfOpenRecovery ==
  /\ [](\A u \in Urls : circuitBreakers[u].state = "HALF_OPEN" =>
                          probes[u] < cbConfig.successThreshold)
  /\ [][\A u \in Urls :
          (cbOp'.kind = "success" /\ cbOp'.url = u /\ circuitBreakers[u].state = "HALF_OPEN")
          => IF probes[u] + 1 >= cbConfig.successThreshold
             THEN /\ circuitBreakers'[u].state = "CLOSED"
                  /\ circuitBreakers'[u].failureCount = 0
                  /\ circuitBreakers'[u].successCount = 0
             ELSE circuitBreakers'[u].state = "HALF_OPEN"]_vars

\* the second success of a HALF_OPEN breaker that had recorded failures closed it
C8_Witness ==
  \E u \in Urls :
     /\ cbOp.kind = "success" /\ cbOp.url = u
     /\ cbOp.pre.state = "HALF_OPEN" /\ cbOp.pre.successCount = 1 /\ cbOp.pre.failureCount > 0
     /\ cbConfig.successThreshold = 2
     /\ circuitBreakers[u].state = "CLOSED"
     /\ circuitBreakers[u].failureCount = 0 /\ circuitBreakers[u].successCount = 0

\* C9: a failed attempt recorded while the breaker is HALF_OPEN leaves it OPEN with
\* nextAttemptTime = (time of the failure) + recoveryTimeout, whatever successCount was.
C9_HalfOpenFailureReopens ==
  \A u \in Urls :
     (cbOp.kind = "failure" /\ cbOp.url = u /\ cbOp.pre.state = "HALF_OPEN")
     => /\ circuitBreakers[u].state = "OPEN"
        /\ circuitBreakers[u].nextAttemptTime = now + cbConfig.recoveryTimeout

\* a HALF_OPEN breaker that had already counted a success was reopened by a failure
C9_Witness ==
  \E u \in Urls :
     /\ cbOp.kind = "failure" /\ cbOp.url = u
     /\ cbOp.pre.state = "HALF_OPEN" /\ cbOp.pre.successCount >= 1
     /\ circuitBreakers[u].state = "OPEN"
     /\ circuitBreakers[u].nextAttemptTime > cbOp.pre.nextAttemptTime

\* C10: a gate check on an OPEN breaker at now < nextAttemptTime refuses the request and
\* leaves the entry as it was; at now >= nextAttemptTime it makes the entry HALF_OPEN with
\* successCount = 0 and lets the request start; and the entry leaves OPEN only by such a
\* gate check or by resetCircuitBreaker.
C10_OpenGate ==
  /\ [](\A u \in Urls :
          (cbOp.kind = "request" /\ cbOp.url = u /\ cbConfig.enabled /\ cbOp.pre.state = "OPEN")
          => IF now < cbOp.pre.nextAttemptTime
             THEN cbOp.result = "CIRCUIT_OPEN" /\ Found(circuitBreakers[u]) = cbOp.pre
             ELSE /\ cbOp.result = "none"
                  /\ circuitBreakers[u].state = "HALF_OPEN"
                  /\ circuitBreakers[u].successCount = 0)
  /\ [][\A u \in Urls :
          /\ (nCalls' = nCalls + 1 /\ cbOp'.url = u /\ cbOp'.result = "CIRCUIT_OPEN")
                => (calls' = calls /\ circuitBreakers' = circuitBreakers)
          /\ (nCalls' = nCalls + 1 /\ cbOp'.url = u /\ cbOp'.result = "none")
                => calls' = calls (+) SetToBag({NewCall(u)})
          /\ (circuitBreakers[u].state = "OPEN" /\ circuitBreakers'[u].state # "OPEN")
                => \/ cbOp'.kind = "reset" /\ cbOp'.url = u
                   \/ /\ cbOp'.kind = "request" /\ cbOp'.url = u
                      /\ now >= circuitBreakers[u].nextAttemptTime
                      /\ circuitBreakers'[u].state = "HALF_OPEN"]_vars

\* a gate check exactly at nextAttemptTime let the request through into HALF_OPEN
C10_Witness ==
  \E u \in Urls :
     /\ cbOp.kind = "request" /\ cbOp.url = u /\ cbOp.pre.state = "OPEN"
     /\ now = cbOp.pre.nextAttemptTime
     /\ circuitBreakers[u].state = "HALF_OPEN"
     /\ BagIn(NewCall(u), calls)

\* ------------------------------------------------------------------------
\* Properties of the retry loop
\* ------------------------------------------------------------------------
\* C11: a request() call starts at most maxRetries + 1 attempts (every call in progress
\* has started io <= maxRetries + 1 attempts), and the first attempt that succeeds ends
\* the call: it returns, leaves the calls in progress and no retry is counted.
C11_AtMostMaxRetriesPlusOne ==
  /\ [](\A c \in BagToSet(calls) : c.io <= maxRetriesConfig + 1)
  /\ [][cbOp'.kind = "success" =>
          /\ cbOp'.result = "ok"
          /\ BagCardinality(calls') = BagCardinality(calls) - 1
          /\ \E c \in BagToSet(calls) : c.pc = "attempting" /\ calls' = calls (-) SetToBag({c})
          /\ retryCount' = retryCount]_vars

\* the only call made so far, with maxRetries >= 1, slept maxRetries times and gave up
\* with the error of its attempt number maxRetries + 1
C11_Witness ==
  /\ maxRetriesConfig >= 1
  /\ nCalls = 1 /\ calls = EmptyBag
  /\ cbOp.kind = "failure" /\ cbOp.result = "error"
  /\ retryCount = maxRetriesConfig

\* C12: an attempt that fails with one of the codes UNAUTHORIZED, FORBIDDEN, BAD_REQUEST,
\* INVALID_JSON, METHOD_NOT_FOUND, PAYLOAD_TOO_LARGE ends the call with that error: no
\* backoff sleep and no further attempt follow, whatever the error's status, retryOn and
\* the retries left.
C12_NonRetryableCodesStop ==
  [][(/\ cbOp'.kind = "failure"
      /\ cbOp'.error.code \in {"UNAUTHORIZED", "FORBIDDEN", "BAD_REQUEST", "INVALID_JSON",
                               "METHOD_NOT_FOUND", "PAYLOAD_TOO_LARGE"})
     => /\ cbOp'.result = "error"
        /\ BagCardinality(calls') = BagCardinality(calls) - 1]_vars

\* ------------------------------------------------------------------------
\* Properties of the inbound request pipeline
\* ------------------------------------------------------------------------
\* C13: every request that has been dealt with got exactly one response and exactly one
\* metrics update: requestCount is the number of such requests and errorCount the number
\* of them answered with a status outside 2xx.
C13_OneResponseOneMetricsUpdate ==
  LET finished == {r \in Reqs : reqs[r].pc = "done"} IN
  /\ \A r \in finished : reqs[r].responses = 1 /\ reqs[r].metricsUpdates = 1
  /\ requestCount = Cardinality(finished)
  /\ errorCount = Cardinality({r \in finished : reqs[r].resp.status \notin 200..299})

\* C14: health-check is a member of excludedPaths under every configuration, and every
\* request for /health-check is answered with status 200 in the step that receives it,
\* before #checkAuth is called: whatever jwtAuth, excludedPaths and the Authorization
\* header are, authFailures and the request metrics stay as they were.
C14_HealthCheckWithoutAuth ==
  /\ []("health-check" \in excludedPaths)
  /\ [][(nArrived' = nArrived + 1 /\ authOp'.path = "health-check") =>
          /\ reqs'[nArrived'].pc = "done"
          /\ reqs'[nArrived'].responses = 1
          /\ reqs'[nArrived'].resp.status = 200
          /\ ~authOp'.checked
          /\ authFailures' = authFailures
          /\ bhObjs' = bhObjs]_vars

\* a POST /health-check without Authorization header was answered 200 by an endpoint
\* that requires authentication
C14_Witness ==
  /\ jwtAuth /\ jwtPublicKey # "none"
  /\ authOp.httpMethod = "POST" /\ authOp.path = "health-check"
  /\ authOp.header = NoHeader
  /\ nArrived > 0 /\ reqs[nArrived].resp.status = 200 /\ reqs[nArrived].method = "health-check"

\* ------------------------------------------------------------------------
\* Properties of JWT validation
\* ------------------------------------------------------------------------
\* C15: with validation switched on, the checks are made in the order format, algorithm,
\* signature, expiration, not-before, issuer, audience: the token is accepted iff none of
\* them fails, a rejected token carries the reason of the first failing check in that
\* order, and no reason belongs to two checks. (A token whose header or payload does not
\* decode fails the format step with the decoder's message.)
C15_ChecksInFixedOrder ==
  (jwtOp.called /\ jwtAuth /\ jwtPublicKey # "none") =>
    LET tk == jwtOp.token
        t == jwtOp.now
        fails == <<tk.parts # 3 \/ ~tk.decodes,
                   tk.alg # "RS256",
                   tk.signedBy # jwtPublicKey,
                   Truthy(tk.exp) /\ tk.exp < t,
                   Truthy(tk.nbf) /\ tk.nbf > t,
                   jwtIssuer # "none" /\ tk.iss # jwtIssuer,
                   jwtAudience # "none" /\ tk.aud # jwtAudience>>
        reasons == <<{"Invalid token format", "JSON.parse SyntaxError"},
                     {"Invalid algorithm"}, {"Invalid signature"}, {"Token expired"},
                     {"Token not yet valid"}, {"Invalid issuer"}, {"Invalid audience"}>>
        failing == {i \in 1..7 : fails[i]}
        first == CHOOSE i \in failing : \A j \in failing : i <= j
    IN /\ jwtOp.result.valid <=> failing = {}
       /\ failing # {} => jwtOp.result.error \in reasons[first]
       /\ failing = {} => jwtOp.result = Valid
       /\ \A i, j \in 1..7 : i # j => reasons[i] \cap reasons[j] = {}

\* a token with a wrong algorithm, a foreign signature, a past exp and a foreign issuer
\* was rejected for its algorithm
C15_Witness ==
  /\ jwtOp.called /\ jwtAuth /\ jwtPublicKey = "key1" /\ jwtIssuer = "p1"
  /\ jwtOp.token.parts = 3 /\ jwtOp.token.decodes
  /\ jwtOp.token.alg = "HS256" /\ jwtOp.token.signedBy = "key2"
  /\ jwtOp.token.exp = 1 /\ jwtOp.now = 2 /\ jwtOp.token.iss = "p2"
  /\ jwtOp.result = Invalid("Invalid algorithm")

\* C16: a correctly signed RS256 token is accepted only if its exp claim, when present
\* (0 included), lies after the time of the call, and only if its nbf claim, when
\* present, does not lie after it; a token carrying neither claim is not rejected for
\* its times.
C16_ExpFutureNbfPast ==
  (/\ jwtOp.called /\ jwtAuth /\ jwtPublicKey # "none"
   /\ jwtOp.token.parts = 3 /\ jwtOp.token.decodes
   /\ jwtOp.token.alg = "RS256" /\ jwtOp.token.signedBy = jwtPublicKey) =>
    /\ jwtOp.result.valid =>
          /\ jwtOp.token.exp # NoClaim => jwtOp.token.exp > jwtOp.now
          /\ jwtOp.token.nbf # NoClaim => jwtOp.token.nbf <= jwtOp.now
    /\ (jwtOp.token.exp = NoClaim /\ jwtOp.token.nbf = NoClaim) =>
          jwtOp.result.error \notin {"Token expired", "Token not yet valid"}

\* ------------------------------------------------------------------------
\* Properties of the authentication step
\* ------------------------------------------------------------------------
\* C17: on an endpoint with jwtAuth enabled, a POST for a method outside excludedPaths
\* whose Authorization header is not a Bearer token that validation reports valid
\* (header missing, another scheme, token rejected, no public key configured) is
\* answered UNAUTHORIZED / 401 in the step that receives it, with the bulkhead untouched
\* and the handler not called; and a request answered 401 never holds a permit, never
\* waits in a queue and never has its handler called.
C17_HandlerOnlyForValidToken ==
  /\ [](\A r \in Reqs : reqs[r].resp.status = 401 =>
           /\ reqs[r].pc = "done" /\ reqs[r].resp.error = "UNAUTHORIZED"
           /\ reqs[r].handlerCalls = 0 /\ reqs[r].promise = "none"
           /\ \A o \in ObjIds : r \notin QueuedReqs(o))
  /\ [][(/\ nArrived' = nArrived + 1
         /\ jwtAuth
         /\ authOp'.httpMethod = "POST"
         /\ authOp'.path \notin excludedPaths
         /\ ~(/\ authOp'.header.scheme = "Bearer"
              /\ ValidateJWT(authOp'.header.token, authOp'.now, jwtAuth, jwtPublicKey,
                             jwtIssuer, jwtAudience).valid))
        => /\ reqs'[nArrived'].resp.status = 401
           /\ reqs'[nArrived'].resp.error = "UNAUTHORIZED"
           /\ reqs'[nArrived'].responses = 1
           /\ reqs'[nArrived'].handlerCalls = 0
           /\ bhObjs' = bhObjs
           /\ bulkheadRejections' = bulkheadRejections]_vars

\* with authentication required for "a", the first request carried a valid Bearer token
\* and its handler ran, the second carried a token while no longer valid and got 401
C17_Witness ==
  /\ jwtAuth /\ jwtPublicKey = "key1" /\ "a" \notin excludedPaths
  /\ nArrived = 2
  /\ reqs[1].method = "a" /\ reqs[1].handlerCalls = 1 /\ reqs[1].resp.status = 200
  /\ reqs[2].method = "a" /\ reqs[2].resp.status = 401 /\ reqs[2].handlerCalls = 0
  /\ authOp.header = Bearer(LapsingToken) /\ authOp.now > 1

\* C18: a request answered UNAUTHORIZED / 401 raises authFailures by exactly one, whatever
\* made it unauthorized, and a step that answers no request with 401 leaves authFailures
\* as it was.
C18_AuthFailuresCounted ==
  [][IF nArrived' = nArrived + 1 /\ reqs'[nArrived'].resp.status = 401
     THEN authFailures' = authFailures + 1
     ELSE authFailures' = authFailures]_vars

\* ------------------------------------------------------------------------
\* Properties of the manual reset
\* ------------------------------------------------------------------------
\* C19: right after resetCircuitBreaker(url), whatever calls came before (none included),
\* the metrics report a breaker for url, in state CLOSED with failureCount = 0 and
\* successCount = 0, and the gate lets a request() to url pass.
C19_ResetReportsClosed ==
  [][cbOp'.kind = "reset" =>
       LET u == cbOp'.url
           report == CircuitBreakerStateMetric(circuitBreakers')
       IN /\ u \in DOMAIN report
          /\ report[u].state = "CLOSED"
          /\ report[u].failureCount = 0
          /\ report[u].successCount = 0
          /\ CheckCircuitBreaker(circuitBreakers', u, cbConfig, now').allowed]_vars

C21_HandlerMessagePropagated ==
  (rpcOp.called /\ rpcOp.handler.name = "throw" /\ rpcOp.auth # "nokey") =>
    /\ rpcOp.outcome.kind = "rejected"
    /\ rpcOp.outcome.message = rpcOp.handler.message

\* C22: a POST whose body is non-empty and not JSON is answered INVALID_JSON / 400 whether
\* or not its method is registered, and a POST with an empty body for a registered method
\* goes on with the empty params {}.
C22_InvalidJsonBeforeLookup ==
  [][nArrived' = nArrived + 1 =>
       LET rq == reqs'[nArrived'] IN
       /\ ParseBody(authOp'.body) = "SyntaxError" =>
             /\ rq.pc = "done"
             /\ rq.resp.status = 400
             /\ rq.resp.error = "INVALID_JSON"
       /\ (authOp'.body = "" /\ authOp'.path \in methodsReg) =>
             /\ rq.params = "{}"
             /\ rq.resp.status \notin {400, 404}]_vars

\* ------------------------------------------------------------------------
\* Properties of the time limits of an attempt
\* ------------------------------------------------------------------------
\* C23: an attempt that fails by a timeout, connection timeout or request timeout, raises
\* timeoutCount by exactly one; every other step leaves timeoutCount as it was.
C23_TimeoutsCounted ==
  [][IF cbOp'.kind = "failure" /\ cbOp'.error.timer # "none"
     THEN timeoutCount' = timeoutCount + 1
     ELSE timeoutCount' = timeoutCount]_vars

\* C24: a call never has more than one session open: when an attempt has been reported
\* to the retry loop, by success, error or timeout, its session is released.
C24_OneSessionPerCall ==
  \A c \in BagToSet(calls) :
     c.sessions <= 1 /\ (c.pc = "sleeping" => c.sessions = 0)

\* C25: with the default retryOn, an attempt that fails with one of the transport codes
\* ECONNRESET, ECONNREFUSED, ETIMEDOUT, ENOTFOUND, EHOSTUNREACH, ENETUNREACH while the
\* attempting calls have retries left is retried: the call stays in progress (it goes to
\* its backoff sleep) and no error is thrown to the caller.
C25_TransportErrorsRetried ==
  [][(/\ cbOp'.kind = "failure"
      /\ retryOnConfig = RETRY_ON
      /\ cbOp'.error.code \in {"ECONNRESET", "ECONNREFUSED", "ETIMEDOUT", "ENOTFOUND",
                               "EHOSTUNREACH", "ENETUNREACH"}
      /\ \A c \in BagToSet(calls) : c.pc = "attempting" => c.attempt < maxRetriesConfig)
     => /\ cbOp'.result = "none"
        /\ BagCardinality(calls') = BagCardinality(calls)
        /\ \E c \in BagToSet(calls') : c.pc = "sleeping"]_vars

\* C26: the constructor produces an endpoint exactly when every option is well-formed: a
\* port outside 1..65535, an empty host, a methods value that is not a mapping, a
\* failureThreshold, recoveryTimeout or successThreshold that is not positive, or a
\* negative maxRetries makes it throw.
C26_OptionsValidatedEagerly ==
  ctorOp.called =>
    LET o == ctorOp.options
        Positive(x) == x = NotGiven \/ x[1] > 0
        wellFormed ==
          /\ o.port = NotGiven \/ o.port[1] \in 1..65535
          /\ o.host = NotGiven \/ o.host[1] \notin {"", " "}
          /\ o.methods \in {"undefined", "object"}
          /\ Positive(o.failureThreshold)
          /\ Positive(o.recoveryTimeout)
          /\ Positive(o.successThreshold)
          /\ o.maxRetries = NotGiven \/ o.maxRetries[1] >= 0
    IN (ctorOp.threw = "none") <=> wellFormed

\* C27: both bulkhead refusals are answered 503 METHOD_BULKHEAD_EXCEEDED, and the response
\* tells them apart: reason queue_timeout when the queue wait timed out, reason capacity
\* when concurrency and queue were full.
C27_RefusalReasons ==
  \A r \in 1..nArrived :
     /\ (reqs[r].pc = "done" /\ TimedOut(r))
           => IsBulkheadExceeded(r) /\ reqs[r].resp.reason = "queue_timeout"
     /\ CapacityRejected(r)
           => IsBulkheadExceeded(r) /\ reqs[r].resp.reason = "capacity"

\* C28: while the breaker is CLOSED, a successful attempt sets failureCount to 0, so
\* failureCount is the number of failed attempts since the last success (streak) and stays
\* below failureThreshold; a failed attempt opens the breaker exactly when it is the
\* failureThreshold-th such failure, and then nextAttemptTime = now + recoveryTimeout and
\* circuitBreakerTrips grows by exactly one; otherwise the breaker stays CLOSED and
\* circuitBreakerTrips is unchanged. Nothing but a failed attempt takes CLOSED to OPEN.
C28_ClosedTripsAtThreshold ==
  /\ [](\A u \in Urls :
          circuitBreakers[u].state = "CLOSED"
          => /\ circuitBreakers[u].failureCount = streak[u]
             /\ circuitBreakers[u].failureCount < cbConfig.failureThreshold)
  /\ [][\A u \in Urls :
          LET closed == circuitBreakers[u].state \in {"ABSENT", "CLOSED"}
          IN /\ (cbOp'.kind = "success" /\ cbOp'.url = u /\ closed)
                  => /\ circuitBreakers'[u].state = "CLOSED"
                     /\ circuitBreakers'[u].failureCount = 0
                     /\ circuitBreakerTrips' = circuitBreakerTrips
             /\ (cbOp'.kind = "failure" /\ cbOp'.url = u /\ closed)
                  => IF circuitBreakers[u].failureCount + 1 = cbConfig.failureThreshold
                     THEN /\ circuitBreakers'[u].state = "OPEN"
                          /\ circuitBreakers'[u].nextAttemptTime = now + cbConfig.recoveryTimeout
                          /\ circuitBreakerTrips' = circuitBreakerTrips + 1
                     ELSE /\ circuitBreakers'[u].state = "CLOSED"
                          /\ circuitBreakers'[u].failureCount = circuitBreakers[u].failureCount + 1
                          /\ circuitBreakerTrips' = circuitBreakerTrips
             /\ (closed /\ circuitBreakers'[u].state = "OPEN")
                  => cbOp'.kind = "failure" /\ cbOp'.url = u]_vars

\* two calls of two attempts each, the first call failing and then succeeding, the second
\* failing twice: its second failure found the CLOSED breaker at failureCount = 1 and
\* opened it, the only trip so far
C28_Witness ==
  \E u \in Urls :
     /\ cbConfig.enabled /\ cbConfig.failureThreshold = 2
     /\ maxRetriesConfig = 1 /\ nCalls = 2 /\ retryCount = 2 /\ calls = EmptyBag
     /\ cbOp.kind = "failure" /\ cbOp.url = u
     /\ cbOp.pre.state = "CLOSED" /\ cbOp.pre.failureCount = 1
     /\ circuitBreakers[u].state = "OPEN"
     /\ circuitBreakers[u].nextAttemptTime = now + cbConfig.recoveryTimeout
     /\ circuitBreakerTrips = 1

\* C29: every failed attempt records exactly one breaker failure (failureCount + 1,
\* lastFailureTime = now, successCount = 0) in the step that takes the retry decision,
\* whether the call then stops (non-retryable error, last attempt) or goes on to retry;
\* every successful attempt records exactly one breaker success (in HALF_OPEN one more
\* success or the closing, in CLOSED failureCount = 0); a refused gate check leaves the
\* breaker and the metrics as they were; and nothing but an attempt's end or a reset
\* changes failureCount.
C29_BreakerAccountingPerAttempt ==
  [][\A u \in Urls :
       LET pre == GetCircuitBreakerState(circuitBreakers, u)
           post == circuitBreakers'[u]
       IN /\ (cbOp'.kind = "failure" /\ cbOp'.url = u)
               => /\ post.failureCount = pre.failureCount + 1
                  /\ post.lastFailureTime = now
                  /\ post.successCount = 0
                  /\ cbOp'.result \in {"error", "none"}
                  /\ cbOp'.result = "error"
                       <=> BagCardinality(calls') = BagCardinality(calls) - 1
          /\ (cbOp'.kind = "success" /\ cbOp'.url = u)
               => /\ post.lastFailureTime = pre.lastFailureTime
                  /\ CASE pre.state = "HALF_OPEN" ->
                            IF pre.successCount + 1 >= cbConfig.successThreshold
                            THEN post.state = "CLOSED" /\ post.successCount = 0
                                 /\ post.failureCount = 0
                            ELSE post.state = "HALF_OPEN"
                                 /\ post.successCount = pre.successCount + 1
                                 /\ post.failureCount = pre.failureCount
                       [] pre.state = "CLOSED" ->
                            post.state = "CLOSED" /\ post.failureCount = 0
                            /\ post.successCount = pre.successCount
                       [] OTHER -> post = pre
          /\ (cbOp'.kind = "request" /\ cbOp'.url = u /\ cbOp'.result = "CIRCUIT_OPEN")
               => /\ circuitBreakers' = circuitBreakers
                  /\ circuitBreakerTrips' = circuitBreakerTrips
                  /\ retryCount' = retryCount
          /\ (post.failureCount # circuitBreakers[u].failureCount
               \/ post.lastFailureTime # circuitBreakers[u].lastFailureTime)
               => cbOp'.url = u /\ cbOp'.kind \in {"failure", "success", "reset"}]_vars

\* the first attempt of a call with a retry left failed with a connection error, which is
\* not retried: the call ended, and the failure is recorded
C29_Witness ==
  \E u \in Urls :
     /\ maxRetriesConfig = 1 /\ nCalls = 1 /\ retryCount = 0 /\ calls = EmptyBag
     /\ cbConfig.enabled /\ cbConfig.failureThreshold = 2
     /\ cbOp.kind = "failure" /\ cbOp.url = u /\ cbOp.result = "error"
     /\ cbOp.error = TransportError("ECONNREFUSED")
     /\ cbOp.pre.failureCount = 0
     /\ circuitBreakers[u].state = "CLOSED"
     /\ circuitBreakers[u].failureCount = 1
     /\ circuitBreakers[u].lastFailureTime = now

\* C30: while the breaker of a target is OPEN and now < nextAttemptTime, no step starts an
\* outbound attempt against that target: neither the first attempt of a new request() nor
\* a retry attempt of a call that passed the gate before the breaker opened.
C30_NoAttemptWhileOpen ==
  [][\A u \in Urls :
       (/\ cbConfig.enabled
        /\ circuitBreakers[u].state = "OPEN"
        /\ now < circuitBreakers[u].nextAttemptTime)
       => /\ ~(cbOp'.kind = "request" /\ cbOp'.url = u /\ cbOp'.result = "none")
          /\ ~(cbOp'.kind = "retry" /\ cbOp'.url = u)
          /\ \A c \in BagToSet(calls') :
                (c.url = u /\ c.pc = "attempting") => BagIn(c, calls)]_vars

C32_ActiveCountsRunningHandlers ==
  \A m \in Methods : BulkheadActive(m) =>
     bhObjs[StateOf(m)].activeRequests = Cardinality(Running(m))

\* C33: under every interleaving of inbound requests with addMethod calls, re-registration
\* of a method with requests executing or queued included, the activeRequests of every
\* method is never negative.
C33_ActiveNeverNegative ==
  \A m \in Methods : StateOf(m) # 0 => bhObjs[StateOf(m)].activeRequests >= 0

\* C34: the rejectedRequests counter of every method never decreases, whatever the step:
\* arrival, completion, queue timeout or addMethod (re-registration included).
C34_RejectedMonotonic ==
  [][\A m \in Methods :
       (bhMap[m] # 0 /\ bhMap'[m] # 0)
       => bhObjs'[bhMap'[m]].rejectedRequests >= bhObjs[bhMap[m]].rejectedRequests]_vars

\* C35: every queued waiter is completed exactly once. A request whose queue wait timed
\* out was answered 503 METHOD_BULKHEAD_EXCEEDED once and its handler is never invoked,
\* also when a later release takes its entry from the queue; a request admitted from the
\* queue has its handler invoked once and is never answered with the bulkhead rejection;
\* and once a waiter's promise is settled neither its outcome nor the number of its
\* handler invocations changes again.
C35_WaiterCompletedOnce ==
  /\ [](\A r \in Reqs :
          /\ TimedOut(r) => /\ reqs[r].promise = "rejected"
                            /\ reqs[r].handlerCalls = 0
                            /\ reqs[r].responses = 1
                            /\ IsBulkheadExceeded(r)
          /\ reqs[r].timer = "cleared" => /\ reqs[r].promise = "resolved"
                                          /\ reqs[r].handlerCalls = 1
                                          /\ ~IsBulkheadExceeded(r))
  /\ [][\A r \in Reqs :
          reqs[r].promise \in {"resolved", "rejected"}
          => /\ reqs'[r].promise = reqs[r].promise
             /\ reqs'[r].handlerCalls = reqs[r].handlerCalls
             /\ reqs'[r].timer = reqs[r].timer]_vars

\* the entry of a waiter that timed out has been taken from the queue by a later release
\* without its handler being invoked, and another waiter was admitted from the queue and
\* has been served
C35_Witness ==
  /\ \E r \in Reqs :
        /\ TimedOut(r) /\ reqs[r].obj # 0 /\ r \notin QueuedReqs(reqs[r].obj)
        /\ reqs[r].handlerCalls = 0 /\ IsBulkheadExceeded(r)
  /\ \E w \in Reqs :
        /\ reqs[w].timer = "cleared" /\ reqs[w].pc = "done"
        /\ reqs[w].handlerCalls = 1 /\ reqs[w].resp.status = 200

\* C36: when every invoked handler completes and every armed timer fires, every request
\* whose body was received eventually has a response; a queued request does not wait
\* forever.
C36_EveryRequestAnswered ==
  \A r \in Reqs :
     (reqs[r].pc # "idle") ~> (reqs[r].pc = "done" /\ reqs[r].responses >= 1)

\* C37: the bulkhead state of a method (activeRequests, the queue, rejectedRequests)
\* changes only in steps of requests for that method: an arrival, a queue timeout, a
\* rejection or a release for method A leaves the state of every other method B as it
\* was; and a request for B that arrives while B has a free slot starts its handler at
\* once, however loaded the other methods are.
C37_MethodIsolation ==
  [][\A b \in Methods :
       LET arrival == nArrived' = nArrived + 1
           r == nArrived + 1
       IN /\ bhObjs'[bhMap[b]] # bhObjs[bhMap[b]]
               => \/ arrival /\ reqs'[r].method = b
                  \/ ~arrival /\ \E x \in Reqs : reqs[x].method = b /\ reqs'[x] # reqs[x]
          /\ (/\ arrival /\ reqs'[r].method = b
              /\ bhObjs[bhMap[b]].config.enabled
              /\ bhObjs[bhMap[b]].activeRequests < bhObjs[bhMap[b]].config.maxConcurrentRequests)
               => /\ reqs'[r].pc = "running"
                  /\ bhObjs'[bhMap[b]].activeRequests = bhObjs[bhMap[b]].activeRequests + 1
                  /\ \A a \in Methods \ {b} : bhObjs'[bhMap[a]] = bhObjs[bhMap[a]]]_vars

\* method a is full and has refused a request; the request for b that arrived last is
\* executing
C37_Witness ==
  /\ nArrived >= 1 /\ reqs[nArrived].method = "b" /\ reqs[nArrived].pc = "running"
  /\ bhObjs[bhMap["b"]].activeRequests = 1
  /\ bhObjs[bhMap["a"]].config.enabled
  /\ bhObjs[bhMap["a"]].activeRequests = bhObjs[bhMap["a"]].config.maxConcurrentRequests
  /\ Len(bhObjs[bhMap["a"]].queuedRequests) = bhObjs[bhMap["a"]].config.maxQueueSize
  /\ bhObjs[bhMap["a"]].rejectedRequests >= 1

\* C38: after any sequence of addMethod calls and assignments to methods, the names with
\* bulkhead state, as getMetrics().methodBulkheads and getMethodBulkheadStatus report
\* them, are the names currently registered.
C38_BulkheadStateForRegistered ==
  /\ DOMAIN MethodBulkheads = methodsReg
  /\ \A m \in Paths : GetMethodBulkheadStatus(m).error = "none" <=> m \in methodsReg

\* C39: the _user entry a handler gets is determined by authentication alone: the claims
\* of the validated token when the request was authenticated, absent otherwise, whatever
\* _user the body holds and whatever jwtAuth and excludedPaths are.
C39_UserOnlyFromAuthentication ==
  [][nArrived' = nArrived + 1 =>
       LET r == nArrived + 1
           authenticated == /\ jwtAuth
                            /\ authOp'.path \notin excludedPaths
                            /\ authOp'.authorized
       IN reqs'[r].pc \in {"running", "queued"}
          => reqs'[r].user = IF authenticated THEN "token" ELSE "absent"]_vars

\* ------------------------------------------------------------------------
\* Properties of the retry delays
\* ------------------------------------------------------------------------
\* C40: for integer initialDelay, maxDelay >= 1 and backoffFactor >= 1, the sleep before
\* retry k + 1 is min(initialDelay * backoffFactor^k, maxDelay) when jitter is disabled,
\* which is never above maxDelay and not below the sleep before any earlier retry; with
\* jitter enabled it lies between 0 and 1.25 times that value. A call sleeps only between
\* two attempts: after k + 1 attempts with k < maxRetries, never before its first attempt
\* and never after its last one.
C40_BackoffDelays ==
  \A c \in BagToSet(calls) :
     /\ c.pc = "attempting" => c.delay = 0
     /\ c.pc = "sleeping" =>
          LET k == c.attempt - 1
              nominal == IF delayConfig.initialDelay * (delayConfig.backoffFactor ^ k)
                              <= delayConfig.maxDelay
                         THEN delayConfig.initialDelay * (delayConfig.backoffFactor ^ k)
                         ELSE delayConfig.maxDelay
          IN /\ k >= 0 /\ k < maxRetriesConfig
             /\ c.io = k + 1
             /\ IF delayConfig.jitterEnabled
                THEN c.delay >= 0 /\ 4 * c.delay <= 5 * nominal * DelayScale
                ELSE /\ c.delay = nominal * DelayScale
                     /\ c.delay <= delayConfig.maxDelay * DelayScale
                     /\ \A j \in 0..k : CalculateRetryDelay(j, delayConfig, 0) <= c.delay

\* without jitter, the second sleep of a call is cut down to maxDelay, above the first one
C40_Witness ==
  \E c \in BagToSet(calls) :
     /\ c.pc = "sleeping" /\ c.attempt = 2
     /\ ~delayConfig.jitterEnabled
     /\ delayConfig.initialDelay < delayConfig.maxDelay
     /\ delayConfig.initialDelay * delayConfig.backoffFactor > delayConfig.maxDelay
     /\ c.delay = delayConfig.maxDelay * DelayScale

====
